---- MODULE Spec2Model ----
(***************************************************************************)
(* A model of sqlconn's SQLQueue (src/sqlqueue.py): a work queue kept in   *)
(* one PostgreSQL table and used by several processes at once.             *)
(*                                                                         *)
(* Every SQL statement the code sends is one atomic step of the store.    *)
(* A method that sends several statements is several actions, one per     *)
(* statement, so that other processes can run between them exactly where   *)
(* the store lets them.  The store is PostgreSQL at READ COMMITTED:        *)
(*   - every statement sees the rows committed when it starts;             *)
(*   - SELECT ... FOR UPDATE locks the rows it returns until the end of    *)
(*     the transaction; a row locked by another transaction makes the      *)
(*     statement wait, and once the lock is granted the WHERE clause is    *)
(*     checked again on the row as it then is; LIMIT is applied after the  *)
(*     locking, so a row that fails the second check is skipped and the    *)
(*     next row of the ordered result is tried;                            *)
(*   - an UPDATE waits for a row another transaction has locked;           *)
(*   - LOCK TABLE ... IN ACCESS EXCLUSIVE MODE waits for every open        *)
(*     transaction that has touched the table, and while it is held every  *)
(*     other statement on the table waits.                                 *)
(* The connection used by claim, cleanup_long_running_rows and             *)
(* set_destroyed commits after each UPDATE it executes (the engine's       *)
(* autocommit of data-changing statements) and rolls back when it is       *)
(* closed with a transaction still open.                                   *)
(***************************************************************************)
EXTENDS Integers, Sequences, FiniteSets, TLC

(***************************************************************************)
(* Bounds of the model.                                                    *)
(***************************************************************************)
NumProcs == 2
MaxRows == 2
MaxBatch == 1
MaxTime == 1
MaxBacklog == 3
MaxCalls == 5

(***************************************************************************)
(* Program constants (class SQLQueue).                                     *)
(***************************************************************************)
SQ_PRIORITY == "sq_priority"
SQ_STATUS == "sq_status"
SQ_ID == "sq_id"
SQ_PUT_TIME == "sq_put_time"
SQ_PUT_HOSTNAME == "sq_put_hostname"
SQ_CLAIM_TIME == "sq_claim_time"
SQ_CLAIM_HOSTNAME == "sq_claim_hostname"
SQ_GET_TIME == "sq_get_time"
SQ_GET_HOSTNAME == "sq_get_hostname"
SQ_FINISH_TIME == "sq_finish_time"

MAX_PRIORITY == 10
MIN_PRIORITY == 1

STATUS_AVAILABLE == "AVAILABLE"
STATUS_CLAIMED == "CLAIMED"
STATUS_PROGRESS == "IN_PROGRESS"
STATUS_COMPLETED == "COMPLETED"
STATUS_NOEXIST == "DOESNOTEXIST"
STATUS_EXCEPTION == "EXCEPTION"
STATUS_DESTROYED == "DESTROYED"
STATUS_RECOVERABLE == "RECOVERABLE"

(***************************************************************************)
(* Values.  A timestamp is a tick of the store's clock, NULL is -1 for a   *)
(* timestamp, 0 for a host name and "NULL" for a payload value.  The host  *)
(* name of process p (socket.gethostname()) is p.                          *)
(***************************************************************************)
NULL_TIME == -1
NULL_HOST == 0
NULL_TEXT == "NULL"
NONE_AVAILABLE == -1

Procs == 1..NumProcs
gethostname(p) == p

\* The payload column of the queue table, and a column only a caller's frame has.
KIND == "kind"
JUNK == "junk"
Kinds == {"a", "b"}

MetaColumns ==
    {SQ_PRIORITY, SQ_STATUS, SQ_ID, SQ_PUT_TIME, SQ_PUT_HOSTNAME, SQ_CLAIM_TIME,
     SQ_CLAIM_HOSTNAME, SQ_GET_TIME, SQ_GET_HOSTNAME, SQ_FINISH_TIME}
PayloadColumns == {KIND}

VARIABLES
    table,      \* the queue table: the committed rows, in insertion order
    sq_id_seq,  \* the next value of the serial sq_id column
    now,        \* the store's clock, now()
    pc,         \* pc[p]: the statement process p executes next
    cond,       \* cond[p]: conditional_claim of p's claim, the kinds it accepts
    cands,      \* cands[p]: rows of p's locking select still to be locked, in order
    sel,        \* sel[p]: the row p's claim has locked, or row_id of p's get
    picked,     \* picked[p]: the sq_ids p's cleanup or set_destroyed selected
    statuses,   \* statuses[p]: status_list of p's set_destroyed
    ret,        \* what the step that led here returned to its caller
    claim_log,  \* history: the values claim calls have returned, in order
    reavailed,  \* history: some row's status was set back to AVAILABLE
    put_log,    \* history: put_log[id] is the frame row that put inserted as id
    stale,      \* history: stale[p]: a row became AVAILABLE after p's claim selected
    last_op,    \* history: last_op[id]: the last statement that wrote row id
    calls,      \* the number of calls made so far
    columns,    \* the table's columns and their SQL types; no column: no table
    up,         \* the store can be reached
    handles,    \* the processes that hold a SQLQueue object
    counted,    \* history: the last available_count and the claims made since
    attempts,   \* history: attempts[p]: how each run of p's statement has ended
    worker      \* worker[p]: the row p works on, its place in the loop, its history

vars == <<table, sq_id_seq, now, pc, cond, cands, sel, picked, statuses, ret,
          claim_log, reavailed, put_log, stale, last_op, calls,
          columns, up, handles, counted, attempts, worker>>

\* get_columns: the names of the table's columns, none when there is no table.
TableColumns == DOMAIN columns

(***************************************************************************)
(* Rows, frames and the SQL the code sends.                                *)
(***************************************************************************)
IdsOf(rows) == {rows[i][SQ_ID] : i \in 1..Len(rows)}

\* SELECT * FROM squeue WHERE <where>: the matching rows, in table order.
SelectWhere(t, where(_)) == SelectSeq(t, where)

\* UPDATE squeue SET <assign> WHERE <where>.
UpdateWhere(t, where(_), assign) ==
    [i \in 1..Len(t) |->
        IF where(t[i])
        THEN [c \in DOMAIN t[i] |-> IF c \in DOMAIN assign THEN assign[c] ELSE t[i][c]]
        ELSE t[i]]

\* The rows a statement with this WHERE clause touches.
Matching(t, where(_)) == {t[i][SQ_ID] : i \in {j \in 1..Len(t) : where(t[j])}}

\* Mutant: ORDER BY sq_priority ASC, sq_id ASC.
BeforeAscending(r, q) ==
    \/ r[SQ_PRIORITY] < q[SQ_PRIORITY]
    \/ r[SQ_PRIORITY] = q[SQ_PRIORITY] /\ r[SQ_ID] < q[SQ_ID]

\* ORDER BY sq_priority DESC, sq_id ASC.
Before(r, q) ==
    \/ r[SQ_PRIORITY] > q[SQ_PRIORITY]
    \/ r[SQ_PRIORITY] = q[SQ_PRIORITY] /\ r[SQ_ID] < q[SQ_ID]

RECURSIVE OrderBy(_)
OrderBy(rows) ==
    IF rows = {} THEN <<>>
    ELSE LET first == CHOOSE r \in rows : \A q \in rows \ {r} : Before(r, q)
         IN  <<first[SQ_ID]>> \o OrderBy(rows \ {first})

\* conditional_claim: the kinds the predicate accepts; an empty one is no predicate.
NO_CONDITION == {}
Conditions == {NO_CONDITION, {"a"}, {"b"}}
Satisfies(r, c) == c = NO_CONDITION \/ r[KIND] \in c

\* Mutant: the predicate is left out of the WHERE clause.
ClaimWhereAvailable(r, c) == r[SQ_STATUS] = STATUS_AVAILABLE

\* The WHERE clause of claim's select.
ClaimWhere(r, c) == r[SQ_STATUS] = STATUS_AVAILABLE /\ Satisfies(r, c)

\* The result of claim's select before the locking and the LIMIT.
ClaimCandidates(t, c) == OrderBy({t[i] : i \in {j \in 1..Len(t) : ClaimWhere(t[j], c)}})

(***************************************************************************)
(* What a call returns: the process, the method, whether it raised, and    *)
(* the value (an sq_id, a status, a frame of rows or a list of sq_ids).    *)
(***************************************************************************)
Returned(p, op, id, status, rows, ids) ==
    [proc |-> p, op |-> op, raised |-> FALSE, id |-> id, status |-> status,
     rows |-> rows, ids |-> ids]
Raised(p, op) ==
    [proc |-> p, op |-> op, raised |-> TRUE, id |-> 0, status |-> NULL_TEXT,
     rows |-> <<>>, ids |-> <<>>]
NoReturn ==
    [proc |-> 0, op |-> "none", raised |-> FALSE, id |-> 0, status |-> NULL_TEXT,
     rows |-> <<>>, ids |-> <<>>]

(***************************************************************************)
(* Locks.                                                                  *)
(***************************************************************************)
\* Mutant: the select takes no row lock (no FOR UPDATE).
RowNeverLocked(p, id) == FALSE

\* The row lock of SELECT ... FOR UPDATE, held from claim's select to its commit.
RowLockedByOther(p, id) == \E q \in Procs \ {p} : pc[q] = "claim_update" /\ sel[q] = id

\* Mutant: set_destroyed takes no table lock.
TableNeverLocked(p) == FALSE

\* The ACCESS EXCLUSIVE lock of set_destroyed, held from LOCK TABLE to the commit.
TableLockedByOther(p) == \E q \in Procs \ {p} : pc[q] \in {"sd_select", "sd_update"}

\* A transaction that has touched the table and has not ended.
InTransaction(q) ==
    pc[q] \in {"claim_lock", "claim_update", "cleanup_update", "sd_select", "sd_update"}

(***************************************************************************)
(* History variables.                                                      *)
(***************************************************************************)
Claiming(q) == pc[q] \in {"claim_lock", "claim_update"}

\* A statement of p makes rows AVAILABLE (inserted, or set back).
MarkStale(p, some) == [q \in Procs |-> stale[q] \/ (some /\ q # p /\ Claiming(q))]

\* Statement op of p, with status argument s, writes the rows ids.
Wrote(p, op, s, ids) ==
    [id \in DOMAIN last_op |->
        IF id \in ids THEN [op |-> op, proc |-> p, status |-> s] ELSE last_op[id]]

\* UPDATE ... SET sq_status = s WHERE where sets some row back to AVAILABLE.
SetsBack(t, where(_), s) ==
    s = STATUS_AVAILABLE /\ \E i \in 1..Len(t) : where(t[i]) /\ t[i][SQ_STATUS] # s

\* No row statement changes the schema, the store's reachability or a handle;
\* the runs of a statement and the workers' loops are recorded by the actions
\* that model them.
SchemaUnchanged == UNCHANGED <<columns, up, handles, attempts, worker>>

\* The count of available_count that the claims after it are compared with:
\* who counted, with which predicate, the number it returned, how many claims
\* have returned a row since, and whether one has returned "none available".
NotCounting == [on |-> FALSE, proc |-> 0, cond |-> {}, n |-> 0, got |-> 0, ended |-> FALSE]

\* A call that is not one of the claims following a count ends the comparison.
CountEnds == counted' = NotCounting

\* The count after a claim of p with predicate c has returned value.
AfterClaim(p, c, value) ==
    IF counted.on /\ counted.proc = p /\ counted.cond = c /\ ~counted.ended
       /\ ~value.raised
    THEN IF value.id = NONE_AVAILABLE THEN [counted EXCEPT !.ended = TRUE]
         ELSE [counted EXCEPT !.got = @ + 1]
    ELSE NotCounting

\* A step of p's claim with predicate c: the count goes on while the claim
\* runs and is compared when the claim returns.
CountClaim(p, c) ==
    counted' = IF pc'[p] = "idle" THEN AfterClaim(p, c, ret')
               ELSE IF counted.on /\ counted.proc = p THEN counted ELSE NotCounting

\* Process p starts a call of its own: it is in no call, and the model's budget
\* of calls is not spent.
Call(p) ==
    /\ pc[p] = "idle"
    /\ calls < MaxCalls
    /\ calls' = calls + 1

\* Process p calls a method of its queue object, and the store can be reached.
Begin(p) ==
    /\ pc[p] = "idle"
    /\ calls < MaxCalls
    /\ calls' = calls + 1
    /\ p \in handles
    /\ up

\* The SQL types of the queue's own columns (create_table), and of the columns a
\* working queue table has: those, the column claim writes the claiming host to,
\* and the payload column.
MetaTypes ==
    [c \in MetaColumns \ {SQ_CLAIM_HOSTNAME} |->
        CASE c = SQ_STATUS -> "varchar(20)"
          [] c = SQ_PRIORITY -> "int"
          [] c = SQ_PUT_TIME -> "timestamp default now()"
          [] c \in {SQ_CLAIM_TIME, SQ_GET_TIME, SQ_FINISH_TIME} -> "timestamp"
          [] c \in {SQ_PUT_HOSTNAME, SQ_GET_HOSTNAME} -> "text"
          [] c = SQ_ID -> "serial primary key"]
QueueSchema == (SQ_CLAIM_HOSTNAME :> "text") @@ (KIND :> "text") @@ MetaTypes

\* A queue in use: its table exists with every column, and every process
\* holds a queue object for it.
Init ==
    /\ columns = QueueSchema
    /\ up = TRUE
    /\ handles = Procs
    /\ counted = NotCounting
    /\ attempts = [p \in Procs |-> <<>>]
    /\ worker = [p \in Procs |-> [row_id |-> 0, at |-> "claim", got |-> {}, finished |-> {}]]
    /\ table = <<>>
    /\ sq_id_seq = 1
    /\ now = 0
    /\ pc = [p \in Procs |-> "idle"]
    /\ cond = [p \in Procs |-> NO_CONDITION]
    /\ cands = [p \in Procs |-> <<>>]
    /\ sel = [p \in Procs |-> 0]
    /\ picked = [p \in Procs |-> <<>>]
    /\ statuses = [p \in Procs |-> {}]
    /\ ret = NoReturn
    /\ claim_log = <<>>
    /\ reavailed = FALSE
    /\ put_log = <<>>
    /\ stale = [p \in Procs |-> FALSE]
    /\ last_op = <<>>
    /\ calls = 0

(***************************************************************************)
(* put                                                                     *)
(***************************************************************************)
\* The frames a caller hands to put: rows over one of these column sets.
FramePriorities == {5, 12}
PriorityArguments == {0, 11}
FrameColumnSets == {{KIND}, {KIND, SQ_PRIORITY}, {KIND, JUNK}}
FrameRows(cols) ==
    IF cols = {KIND} THEN {[kind |-> k] : k \in Kinds}
    ELSE IF cols = {KIND, SQ_PRIORITY}
         THEN {[kind |-> k, sq_priority |-> q] : k \in Kinds, q \in FramePriorities}
         ELSE {[kind |-> k, junk |-> "x"] : k \in Kinds}
Frames(cols) == UNION {[1..n -> FrameRows(cols)] : n \in 1..MaxBatch}

\* Frames that carry a column of the queue's own: a status, an sq_id or a put
\* time of the caller's (a NULL one, as in a frame built with an empty column).
FrameIds == {1, 3}
MetaColumnSets == {{KIND, SQ_STATUS}, {KIND, SQ_ID}, {KIND, SQ_PUT_TIME}}
MetaFrameRows(cols) ==
    IF cols = {KIND, SQ_STATUS} THEN {[kind |-> "a", sq_status |-> STATUS_COMPLETED]}
    ELSE IF cols = {KIND, SQ_ID} THEN {[kind |-> "a", sq_id |-> id] : id \in FrameIds}
         ELSE {[kind |-> "a", sq_put_time |-> NULL_TIME]}
MetaFrames(cols) == UNION {[1..n -> MetaFrameRows(cols)] : n \in 1..MaxBatch}

clamp(priority) ==
    LET capped == IF priority > MAX_PRIORITY THEN MAX_PRIORITY ELSE priority
    IN  IF capped < MIN_PRIORITY THEN MIN_PRIORITY ELSE capped

\* df.loc[:, c] = v on one row.
SetColumn(r, c, v) == [x \in DOMAIN r \cup {c} |-> IF x = c THEN v ELSE r[x]]

\* The frame put hands to append_to_table.
put_frame(p, df, priority_included, priority) ==
    LET included == IF SQ_PRIORITY \notin DOMAIN df[1] THEN FALSE ELSE priority_included
        withPriority(r) == IF included THEN r ELSE SetColumn(r, SQ_PRIORITY, clamp(priority))
    IN  [i \in 1..Len(df) |->
            SetColumn(SetColumn(withPriority(df[i]), SQ_STATUS, STATUS_AVAILABLE),
                      SQ_PUT_HOSTNAME, gethostname(p))]

\* Mutant: only the queue's own columns are kept.
get_df_meta_columns(df, sql_columns) ==
    [i \in 1..Len(df) |-> [c \in DOMAIN df[i] \cap MetaColumns |-> df[i][c]]]

\* The frame without the columns the table does not have.
get_df_interesection(df, sql_columns) ==
    [i \in 1..Len(df) |-> [c \in DOMAIN df[i] \cap sql_columns |-> df[i][c]]]

\* The value the table gives a column the inserted row does not carry.
ColumnDefault(c, id, t) ==
    CASE c = SQ_ID -> id
      [] c = SQ_PUT_TIME -> t
      [] c \in {SQ_CLAIM_TIME, SQ_GET_TIME, SQ_FINISH_TIME, SQ_PRIORITY} -> NULL_TIME
      [] c \in {SQ_PUT_HOSTNAME, SQ_CLAIM_HOSTNAME, SQ_GET_HOSTNAME} -> NULL_HOST
      [] OTHER -> NULL_TEXT

\* Mutant: the frame replaces the table (if_exists='replace').
replace_table(t, data_to_append, first_id, t_now) ==
    LET temp_df == get_df_interesection(data_to_append, TableColumns)
    IN  [i \in 1..Len(temp_df) |->
            [c \in TableColumns |->
                IF c \in DOMAIN temp_df[i] THEN temp_df[i][c]
                ELSE ColumnDefault(c, first_id + i - 1, t_now)]]

\* The table after the rows of the frame are inserted.
append_to_table(t, data_to_append, first_id, t_now) ==
    LET temp_df == get_df_interesection(data_to_append, TableColumns)
    IN  t \o [i \in 1..Len(temp_df) |->
                [c \in TableColumns |->
                    IF c \in DOMAIN temp_df[i] THEN temp_df[i][c]
                    ELSE ColumnDefault(c, first_id + i - 1, t_now)]]

\* sq_id is the table's primary key: no two rows have the same sq_id.
PrimaryKeyHolds(t) == \A i, j \in 1..Len(t) : t[i][SQ_ID] = t[j][SQ_ID] => i = j

\* One to_sql of append_to_table with the serial at first_id: the INSERT either
\* adds every row of the frame or, on a duplicate sq_id, raises and adds none.
\* A frame without an sq_id column takes its sq_ids from the serial, which keeps
\* the values it has handed out also when the INSERT fails (up to the row that
\* failed); a frame with an sq_id column does not touch the serial.
to_sql(t, data_to_append, first_id, t_now) ==
    LET n == Len(data_to_append)
        serial == SQ_ID \notin DOMAIN data_to_append[1]
        id(k) == IF serial THEN first_id + k - 1 ELSE data_to_append[k][SQ_ID]
        fails(k) == id(k) \in IdsOf(t) \cup {id(m) : m \in 1..(k - 1)}
        failed == {k \in 1..n : fails(k)}
        used == IF ~serial THEN 0
                ELSE IF failed = {} THEN n
                     ELSE CHOOSE k \in failed : \A m \in failed : k <= m
    IN  [ok |-> failed = {},
         table |-> IF failed = {} THEN append_to_table(t, data_to_append, first_id, t_now)
                   ELSE t,
         next_id |-> first_id + used]

\* The two attempts of append_to_table: the second one is made when the first
\* has raised, and starts from the serial as the first has left it.
append_with_retry(t, data_to_append, first_id, t_now) ==
    IF to_sql(t, data_to_append, first_id, t_now).ok
    THEN to_sql(t, data_to_append, first_id, t_now)
    ELSE to_sql(t, data_to_append, to_sql(t, data_to_append, first_id, t_now).next_id, t_now)

\* put: the frame is stamped and appended; when the INSERT raises, append_to_table
\* disposes of the connections and runs it once more, and a second error
\* reaches the caller.
put(p, df, priority_included, priority) ==
    /\ Begin(p)
    /\ ~TableLockedByOther(p)
    /\ Len(table) + Len(df) <= MaxRows
    /\ \E done \in {append_with_retry(table, put_frame(p, df, priority_included, priority),
                                       sq_id_seq, now)} :
           /\ table' = done.table
           /\ sq_id_seq' = done.next_id
           /\ put_log' = IF done.ok THEN put_log \o df ELSE put_log
           /\ last_op' = IF done.ok
                         THEN last_op \o [i \in 1..Len(df) |->
                                  [op |-> "put", proc |-> p, status |-> STATUS_AVAILABLE]]
                         ELSE last_op
           /\ stale' = MarkStale(p, done.ok)
           /\ ret' = IF done.ok THEN Returned(p, "put", 0, NULL_TEXT, <<>>, <<>>)
                     ELSE Raised(p, "put")
    /\ UNCHANGED <<now, pc, cond, cands, sel, picked, statuses, claim_log, reavailed>>
    /\ SchemaUnchanged
    /\ CountEnds

(***************************************************************************)
(* claim                                                                   *)
(***************************************************************************)
RowWithId(t, id) == CHOOSE r \in {t[i] : i \in 1..Len(t)} : r[SQ_ID] = id

\* claim returns: the call is over, the connection is closed.
claim_return(p, value) ==
    /\ pc' = [pc EXCEPT ![p] = "idle"]
    /\ cands' = [cands EXCEPT ![p] = <<>>]
    /\ sel' = [sel EXCEPT ![p] = 0]
    /\ cond' = [cond EXCEPT ![p] = NO_CONDITION]
    /\ stale' = [stale EXCEPT ![p] = FALSE]
    /\ claim_log' = IF value.raised THEN claim_log ELSE Append(claim_log, value.id)
    /\ ret' = value

\* The locking select starts: the rows it will return, as committed now.
claim_select(p, conditional_claim) ==
    /\ Begin(p)
    /\ ~TableLockedByOther(p)
    /\ LET found == ClaimCandidates(table, conditional_claim)
       IN  IF found = <<>>
           THEN claim_return(p, Returned(p, "claim", NONE_AVAILABLE, NULL_TEXT, <<>>, <<>>))
           ELSE /\ pc' = [pc EXCEPT ![p] = "claim_lock"]
                /\ cands' = [cands EXCEPT ![p] = found]
                /\ cond' = [cond EXCEPT ![p] = conditional_claim]
                /\ stale' = [stale EXCEPT ![p] = FALSE]
                /\ ret' = NoReturn
                /\ UNCHANGED <<sel, claim_log>>
    /\ UNCHANGED <<table, sq_id_seq, now, picked, statuses, reavailed,
                   put_log, last_op>>
    /\ SchemaUnchanged
    /\ CountClaim(p, conditional_claim)

\* Mutant: the LIMIT is applied before the lock: a row that fails the second
\* check is not replaced by the next one.
claim_lock_limit_first(p) ==
    /\ pc[p] = "claim_lock"
    /\ up
    /\ LET id == Head(cands[p])
       IN  /\ ~RowLockedByOther(p, id)
           /\ IF ClaimWhere(RowWithId(table, id), cond[p])
              THEN /\ pc' = [pc EXCEPT ![p] = "claim_update"]
                   /\ sel' = [sel EXCEPT ![p] = id]
                   /\ cands' = [cands EXCEPT ![p] = <<>>]
                   /\ ret' = NoReturn
                   /\ UNCHANGED <<cond, stale, claim_log>>
              ELSE claim_return(p, Returned(p, "claim", NONE_AVAILABLE, NULL_TEXT,
                                            <<>>, <<>>))
    /\ UNCHANGED <<calls, table, sq_id_seq, now, picked, statuses, reavailed,
                   put_log, last_op>>
    /\ SchemaUnchanged
    /\ CountClaim(p, cond[p])

\* Mutant: a select that finds its row no longer AVAILABLE under the lock goes
\* on waiting for that row instead of passing to the next one or returning.
claim_lock_waits(p) ==
    /\ pc[p] = "claim_lock"
    /\ up
    /\ LET id == Head(cands[p])
       IN  /\ ~RowLockedByOther(p, id)
           /\ ClaimWhere(RowWithId(table, id), cond[p])
           /\ pc' = [pc EXCEPT ![p] = "claim_update"]
           /\ sel' = [sel EXCEPT ![p] = id]
           /\ cands' = [cands EXCEPT ![p] = <<>>]
           /\ ret' = NoReturn
           /\ UNCHANGED <<cond, stale, claim_log>>
    /\ UNCHANGED <<calls, table, sq_id_seq, now, picked, statuses, reavailed,
                   put_log, last_op>>
    /\ SchemaUnchanged
    /\ CountClaim(p, cond[p])

\* The locking select takes the lock of its next row and checks the row again.
claim_lock(p) ==
    /\ pc[p] = "claim_lock"
    /\ up
    /\ LET id == Head(cands[p])
       IN  /\ ~RowLockedByOther(p, id)
           /\ IF ClaimWhere(RowWithId(table, id), cond[p])
              THEN /\ pc' = [pc EXCEPT ![p] = "claim_update"]
                   /\ sel' = [sel EXCEPT ![p] = id]
                   /\ cands' = [cands EXCEPT ![p] = <<>>]
                   /\ ret' = NoReturn
                   /\ UNCHANGED <<cond, stale, claim_log>>
              ELSE IF Tail(cands[p]) = <<>>
                   THEN claim_return(p, Returned(p, "claim", NONE_AVAILABLE, NULL_TEXT,
                                                 <<>>, <<>>))
                   ELSE /\ cands' = [cands EXCEPT ![p] = Tail(cands[p])]
                        /\ ret' = NoReturn
                        /\ UNCHANGED <<pc, sel, cond, stale, claim_log>>
    /\ UNCHANGED <<calls, table, sq_id_seq, now, picked, statuses, reavailed,
                   put_log, last_op>>
    /\ SchemaUnchanged
    /\ CountClaim(p, cond[p])

\* Mutant: the update's WHERE clause names the status, not the sq_id.
claim_update_available(p) ==
    /\ pc[p] = "claim_update"
    /\ up
    /\ table' = UpdateWhere(table, LAMBDA r : r[SQ_STATUS] = STATUS_AVAILABLE,
                            SQ_STATUS :> STATUS_CLAIMED @@ SQ_CLAIM_TIME :> now
                                @@ SQ_CLAIM_HOSTNAME :> gethostname(p))
    /\ last_op' = Wrote(p, "claim", STATUS_CLAIMED, {sel[p]})
    /\ claim_return(p, Returned(p, "claim", sel[p], NULL_TEXT, <<>>, <<>>))
    /\ UNCHANGED <<calls, sq_id_seq, now, picked, statuses, reavailed, put_log>>
    /\ SchemaUnchanged
    /\ CountClaim(p, cond[p])

\* The update of the locked row, its commit, and the return of the row's sq_id.
\* The update names sq_claim_hostname: on a table without that column the
\* store rejects it, and the error reaches the caller with the row as it was.
claim_update(p) ==
    /\ pc[p] = "claim_update"
    /\ up
    /\ IF {SQ_STATUS, SQ_CLAIM_TIME, SQ_CLAIM_HOSTNAME, SQ_ID} \subseteq TableColumns
       THEN /\ table' = UpdateWhere(table, LAMBDA r : r[SQ_ID] = sel[p],
                                    SQ_STATUS :> STATUS_CLAIMED @@ SQ_CLAIM_TIME :> now
                                        @@ SQ_CLAIM_HOSTNAME :> gethostname(p))
            /\ last_op' = Wrote(p, "claim", STATUS_CLAIMED, {sel[p]})
            /\ claim_return(p, Returned(p, "claim", sel[p], NULL_TEXT, <<>>, <<>>))
       ELSE /\ claim_return(p, Raised(p, "claim"))
            /\ UNCHANGED <<table, last_op>>
    /\ UNCHANGED <<calls, sq_id_seq, now, picked, statuses, reavailed, put_log>>
    /\ SchemaUnchanged
    /\ CountClaim(p, cond[p])

\* Mutant: the error is caught and the call returns "none available".
claim_abort_swallowed(p) ==
    /\ pc[p] \in {"claim_lock", "claim_update"}
    /\ claim_return(p, Returned(p, "claim", NONE_AVAILABLE, NULL_TEXT, <<>>, <<>>))
    /\ UNCHANGED <<calls, table, sq_id_seq, now, picked, statuses, reavailed,
                   put_log, last_op>>
    /\ SchemaUnchanged
    /\ CountClaim(p, cond[p])

\* The select or the update raises (lock timeout, lost connection): the
\* connection is closed, its transaction is rolled back, the error propagates.
claim_abort(p) ==
    /\ pc[p] \in {"claim_lock", "claim_update"}
    /\ claim_return(p, Raised(p, "claim"))
    /\ UNCHANGED <<calls, table, sq_id_seq, now, picked, statuses, reavailed,
                   put_log, last_op>>
    /\ SchemaUnchanged
    /\ CountClaim(p, cond[p])

(***************************************************************************)
(* get, finish, get_status                                                 *)
(***************************************************************************)
\* The row ids callers pass: every sq_id there can be, and one there never is.
RowIds == 1..(MaxRows + 1)
FinishStatuses == {STATUS_COMPLETED, STATUS_AVAILABLE}

\* An UPDATE of these rows waits while another claim holds the lock of one.
CanWrite(p, ids) ==
    /\ ~TableLockedByOther(p)
    /\ \A id \in ids : ~RowLockedByOther(p, id)

\* Mutant: the update stamps a row that has not been fetched yet only
\* (WHERE sq_id = row_id AND sq_get_time IS NULL).
get_update_first_stamp(p, row_id) ==
    /\ Begin(p)
    /\ CanWrite(p, {row_id})
    /\ table' = UpdateWhere(table, LAMBDA r : /\ r[SQ_ID] = row_id
                                              /\ r[SQ_GET_TIME] = NULL_TIME,
                            SQ_GET_TIME :> now @@ SQ_STATUS :> STATUS_PROGRESS
                                @@ SQ_GET_HOSTNAME :> gethostname(p))
    /\ pc' = [pc EXCEPT ![p] = "get_select"]
    /\ sel' = [sel EXCEPT ![p] = row_id]
    /\ last_op' = Wrote(p, "get", STATUS_PROGRESS, {row_id})
    /\ ret' = NoReturn
    /\ UNCHANGED <<sq_id_seq, now, cond, cands, picked, statuses, claim_log, reavailed,
                   put_log, stale>>
    /\ SchemaUnchanged
    /\ CountEnds

\* get's update, on a connection of its own.
get_update(p, row_id) ==
    /\ Begin(p)
    /\ CanWrite(p, {row_id})
    /\ table' = UpdateWhere(table, LAMBDA r : r[SQ_ID] = row_id,
                            SQ_GET_TIME :> now @@ SQ_STATUS :> STATUS_PROGRESS
                                @@ SQ_GET_HOSTNAME :> gethostname(p))
    /\ pc' = [pc EXCEPT ![p] = "get_select"]
    /\ sel' = [sel EXCEPT ![p] = row_id]
    /\ last_op' = Wrote(p, "get", STATUS_PROGRESS, {row_id})
    /\ ret' = NoReturn
    /\ UNCHANGED <<sq_id_seq, now, cond, cands, picked, statuses, claim_log, reavailed,
                   put_log, stale>>
    /\ SchemaUnchanged
    /\ CountEnds

\* get's select, on another connection, and the return of its frame.
get_select(p) ==
    /\ pc[p] = "get_select"
    /\ up
    /\ ~TableLockedByOther(p)
    /\ ret' = Returned(p, "get", sel[p], NULL_TEXT,
                       SelectWhere(table, LAMBDA r : r[SQ_ID] = sel[p]), <<>>)
    /\ pc' = [pc EXCEPT ![p] = "idle"]
    /\ sel' = [sel EXCEPT ![p] = 0]
    /\ UNCHANGED <<calls, table, sq_id_seq, now, cond, cands, picked, statuses, claim_log,
                   reavailed, put_log, stale, last_op>>
    /\ SchemaUnchanged
    /\ CountEnds

\* Mutant: the update sets sq_finish_time only.
finish_time_only(p, row_id, finish_status) ==
    /\ Begin(p)
    /\ CanWrite(p, {row_id})
    /\ table' = UpdateWhere(table, LAMBDA r : r[SQ_ID] = row_id, SQ_FINISH_TIME :> now)
    /\ last_op' = Wrote(p, "finish", finish_status, {row_id})
    /\ ret' = Returned(p, "finish", 0, NULL_TEXT, <<>>, <<>>)
    /\ UNCHANGED <<sq_id_seq, now, pc, cond, cands, sel, picked, statuses, claim_log,
                   put_log, reavailed, stale>>
    /\ SchemaUnchanged
    /\ CountEnds

\* Mutant: the update is applied to a row that is IN_PROGRESS only.
finish_in_progress(p, row_id, finish_status) ==
    /\ Begin(p)
    /\ CanWrite(p, {row_id})
    /\ table' = UpdateWhere(table, LAMBDA r : /\ r[SQ_ID] = row_id
                                              /\ r[SQ_STATUS] = STATUS_PROGRESS,
                            SQ_FINISH_TIME :> now @@ SQ_STATUS :> finish_status)
    /\ reavailed' = (reavailed \/
                        SetsBack(table, LAMBDA r : r[SQ_ID] = row_id, finish_status))
    /\ stale' = MarkStale(p, SetsBack(table, LAMBDA r : r[SQ_ID] = row_id, finish_status))
    /\ last_op' = Wrote(p, "finish", finish_status, {row_id})
    /\ ret' = Returned(p, "finish", 0, NULL_TEXT, <<>>, <<>>)
    /\ UNCHANGED <<sq_id_seq, now, pc, cond, cands, sel, picked, statuses, claim_log,
                   put_log>>
    /\ SchemaUnchanged
    /\ CountEnds

finish(p, row_id, finish_status) ==
    /\ Begin(p)
    /\ CanWrite(p, {row_id})
    /\ table' = UpdateWhere(table, LAMBDA r : r[SQ_ID] = row_id,
                            SQ_FINISH_TIME :> now @@ SQ_STATUS :> finish_status)
    /\ reavailed' = (reavailed \/
                        SetsBack(table, LAMBDA r : r[SQ_ID] = row_id, finish_status))
    /\ stale' = MarkStale(p, SetsBack(table, LAMBDA r : r[SQ_ID] = row_id, finish_status))
    /\ last_op' = Wrote(p, "finish", finish_status, {row_id})
    /\ ret' = Returned(p, "finish", 0, NULL_TEXT, <<>>, <<>>)
    /\ UNCHANGED <<sq_id_seq, now, pc, cond, cands, sel, picked, statuses, claim_log,
                   put_log>>
    /\ SchemaUnchanged
    /\ CountEnds

get_status(p, row_id) ==
    /\ Begin(p)
    /\ ~TableLockedByOther(p)
    /\ LET status_df == SelectWhere(table, LAMBDA r : r[SQ_ID] = row_id)
       IN  ret' = Returned(p, "get_status", row_id,
                           IF Len(status_df) > 0 THEN status_df[1][SQ_STATUS]
                           ELSE STATUS_NOEXIST,
                           <<>>, <<>>)
    /\ UNCHANGED <<table, sq_id_seq, now, pc, cond, cands, sel, picked, statuses,
                   claim_log, reavailed, put_log, stale, last_op>>
    /\ SchemaUnchanged
    /\ CountEnds

\* Mutant: the count has no WHERE clause.
available_count_all(p, conditional_claim) ==
    /\ Begin(p)
    /\ ~TableLockedByOther(p)
    /\ ret' = Returned(p, "available_count", Len(table), NULL_TEXT, <<>>, <<>>)
    /\ UNCHANGED <<table, sq_id_seq, now, pc, cond, cands, sel, picked, statuses,
                   claim_log, reavailed, put_log, stale, last_op>>
    /\ SchemaUnchanged
    /\ counted' = [on |-> TRUE, proc |-> p, cond |-> conditional_claim,
                   n |-> ret'.id, got |-> 0, ended |-> FALSE]

\* available_count: the number of AVAILABLE rows that satisfy the predicate.
available_count(p, conditional_claim) ==
    /\ Begin(p)
    /\ ~TableLockedByOther(p)
    /\ ret' = Returned(p, "available_count",
                       Len(SelectWhere(table, LAMBDA r : ClaimWhere(r, conditional_claim))),
                       NULL_TEXT, <<>>, <<>>)
    /\ UNCHANGED <<table, sq_id_seq, now, pc, cond, cands, sel, picked, statuses,
                   claim_log, reavailed, put_log, stale, last_op>>
    /\ SchemaUnchanged
    /\ counted' = [on |-> TRUE, proc |-> p, cond |-> conditional_claim,
                   n |-> ret'.id, got |-> 0, ended |-> FALSE]

\* get_work_in_progress: the rows that are IN_PROGRESS.
get_work_in_progress(p) ==
    /\ Begin(p)
    /\ ~TableLockedByOther(p)
    /\ ret' = Returned(p, "get_work_in_progress", 0, NULL_TEXT,
                       SelectWhere(table, LAMBDA r : r[SQ_STATUS] = STATUS_PROGRESS), <<>>)
    /\ UNCHANGED <<table, sq_id_seq, now, pc, cond, cands, sel, picked, statuses,
                   claim_log, reavailed, put_log, stale, last_op>>
    /\ SchemaUnchanged
    /\ CountEnds

(***************************************************************************)
(* cleanup_long_running_rows                                               *)
(***************************************************************************)
\* The timeouts callers pass, in ticks of the clock (hours).
Timeouts == {0}

\* Mutant: both ages are measured from sq_claim_time.
TimedOutSinceClaim(r, t_now, in_progress_timeout_h, claimed_timeout_h) ==
    \/ /\ r[SQ_STATUS] = STATUS_PROGRESS
       /\ r[SQ_CLAIM_TIME] # NULL_TIME
       /\ t_now - r[SQ_CLAIM_TIME] > in_progress_timeout_h
    \/ /\ r[SQ_STATUS] = STATUS_CLAIMED
       /\ r[SQ_CLAIM_TIME] # NULL_TIME
       /\ t_now - r[SQ_CLAIM_TIME] > claimed_timeout_h

\* The WHERE clause of the scanner's select.
TimedOut(r, t_now, in_progress_timeout_h, claimed_timeout_h) ==
    \/ /\ r[SQ_STATUS] = STATUS_PROGRESS
       /\ r[SQ_GET_TIME] # NULL_TIME
       /\ t_now - r[SQ_GET_TIME] > in_progress_timeout_h
    \/ /\ r[SQ_STATUS] = STATUS_CLAIMED
       /\ r[SQ_CLAIM_TIME] # NULL_TIME
       /\ t_now - r[SQ_CLAIM_TIME] > claimed_timeout_h

\* The scanner's select; with no row found the frame is returned as it is.
cleanup_select(p, in_progress_timeout_h, claimed_timeout_h) ==
    /\ Begin(p)
    /\ ~TableLockedByOther(p)
    /\ LET in_progress_df ==
               SelectWhere(table, LAMBDA r : TimedOut(r, now, in_progress_timeout_h,
                                                      claimed_timeout_h))
       IN  IF Len(in_progress_df) > 0
           THEN /\ pc' = [pc EXCEPT ![p] = "cleanup_update"]
                /\ picked' = [picked EXCEPT ![p] = in_progress_df]
                /\ ret' = NoReturn
           ELSE /\ ret' = Returned(p, "cleanup_long_running_rows", 0, NULL_TEXT,
                                   in_progress_df, <<>>)
                /\ UNCHANGED <<pc, picked>>
    /\ UNCHANGED <<table, sq_id_seq, now, cond, cands, sel, statuses, claim_log,
                   reavailed, put_log, stale, last_op>>
    /\ SchemaUnchanged
    /\ CountEnds

\* Mutant: the update leaves rows that are no longer CLAIMED or IN_PROGRESS.
cleanup_update_guarded(p) ==
    /\ pc[p] = "cleanup_update"
    /\ up
    /\ CanWrite(p, IdsOf(picked[p]))
    /\ table' = UpdateWhere(table, LAMBDA r : /\ r[SQ_ID] \in IdsOf(picked[p])
                                       /\ r[SQ_STATUS] \in {STATUS_CLAIMED, STATUS_PROGRESS},
                            SQ_STATUS :> STATUS_DESTROYED)
    /\ last_op' = Wrote(p, "cleanup_long_running_rows", STATUS_DESTROYED, IdsOf(picked[p]))
    /\ ret' = Returned(p, "cleanup_long_running_rows", 0, NULL_TEXT, picked[p], <<>>)
    /\ pc' = [pc EXCEPT ![p] = "idle"]
    /\ picked' = [picked EXCEPT ![p] = <<>>]
    /\ UNCHANGED <<calls, sq_id_seq, now, cond, cands, sel, statuses, claim_log, reavailed,
                   put_log, stale>>
    /\ SchemaUnchanged
    /\ CountEnds

\* Mutant: the update stamps sq_finish_time as well.
cleanup_update_finished(p) ==
    /\ pc[p] = "cleanup_update"
    /\ up
    /\ CanWrite(p, IdsOf(picked[p]))
    /\ table' = UpdateWhere(table, LAMBDA r : r[SQ_ID] \in IdsOf(picked[p]),
                            SQ_STATUS :> STATUS_DESTROYED @@ SQ_FINISH_TIME :> now)
    /\ last_op' = Wrote(p, "cleanup_long_running_rows", STATUS_DESTROYED, IdsOf(picked[p]))
    /\ ret' = Returned(p, "cleanup_long_running_rows", 0, NULL_TEXT, picked[p], <<>>)
    /\ pc' = [pc EXCEPT ![p] = "idle"]
    /\ picked' = [picked EXCEPT ![p] = <<>>]
    /\ UNCHANGED <<calls, sq_id_seq, now, cond, cands, sel, statuses, claim_log, reavailed,
                   put_log, stale>>
    /\ SchemaUnchanged
    /\ CountEnds

\* The scanner's update of the rows it selected, and the return of the frame.
cleanup_update(p) ==
    /\ pc[p] = "cleanup_update"
    /\ up
    /\ CanWrite(p, IdsOf(picked[p]))
    /\ table' = UpdateWhere(table, LAMBDA r : r[SQ_ID] \in IdsOf(picked[p]),
                            SQ_STATUS :> STATUS_DESTROYED)
    /\ last_op' = Wrote(p, "cleanup_long_running_rows", STATUS_DESTROYED, IdsOf(picked[p]))
    /\ ret' = Returned(p, "cleanup_long_running_rows", 0, NULL_TEXT, picked[p], <<>>)
    /\ pc' = [pc EXCEPT ![p] = "idle"]
    /\ picked' = [picked EXCEPT ![p] = <<>>]
    /\ UNCHANGED <<calls, sq_id_seq, now, cond, cands, sel, statuses, claim_log, reavailed,
                   put_log, stale>>
    /\ SchemaUnchanged
    /\ CountEnds

(***************************************************************************)
(* set_destroyed                                                           *)
(***************************************************************************)
StatusLists == {{STATUS_CLAIMED, STATUS_PROGRESS}, {STATUS_AVAILABLE, STATUS_COMPLETED}}

\* BEGIN WORK; LOCK TABLE squeue IN ACCESS EXCLUSIVE MODE.
set_destroyed_lock(p, status_list) ==
    /\ Begin(p)
    /\ \A q \in Procs \ {p} : ~InTransaction(q)
    /\ pc' = [pc EXCEPT ![p] = "sd_select"]
    /\ statuses' = [statuses EXCEPT ![p] = status_list]
    /\ ret' = NoReturn
    /\ UNCHANGED <<table, sq_id_seq, now, cond, cands, sel, picked, claim_log,
                   reavailed, put_log, stale, last_op>>
    /\ SchemaUnchanged
    /\ CountEnds

\* Mutant: the select has no WHERE clause.
set_destroyed_select_all(p) ==
    /\ pc[p] = "sd_select"
    /\ up
    /\ picked' = [picked EXCEPT ![p] = table]
    /\ pc' = [pc EXCEPT ![p] = "sd_update"]
    /\ ret' = NoReturn
    /\ UNCHANGED <<calls, table, sq_id_seq, now, cond, cands, sel, statuses, claim_log,
                   reavailed, put_log, stale, last_op>>
    /\ SchemaUnchanged
    /\ CountEnds

\* The select of the rows to destroy, under the table lock.
set_destroyed_select(p) ==
    /\ pc[p] = "sd_select"
    /\ up
    /\ picked' = [picked EXCEPT ![p] =
                     SelectWhere(table, LAMBDA r : r[SQ_STATUS] \in statuses[p])]
    /\ pc' = [pc EXCEPT ![p] = "sd_update"]
    /\ ret' = NoReturn
    /\ UNCHANGED <<calls, table, sq_id_seq, now, cond, cands, sel, statuses, claim_log,
                   reavailed, put_log, stale, last_op>>
    /\ SchemaUnchanged
    /\ CountEnds

\* The update, the commit that ends the lock, and the return of the sq_ids.
set_destroyed_update(p) ==
    /\ pc[p] = "sd_update"
    /\ up
    /\ table' = UpdateWhere(table, LAMBDA r : r[SQ_STATUS] \in statuses[p],
                            SQ_STATUS :> STATUS_DESTROYED)
    /\ last_op' = Wrote(p, "set_destroyed", STATUS_DESTROYED,
                       Matching(table, LAMBDA r : r[SQ_STATUS] \in statuses[p]))
    /\ ret' = Returned(p, "set_destroyed", 0, NULL_TEXT, <<>>,
                       [i \in 1..Len(picked[p]) |-> picked[p][i][SQ_ID]])
    /\ pc' = [pc EXCEPT ![p] = "idle"]
    /\ picked' = [picked EXCEPT ![p] = <<>>]
    /\ statuses' = [statuses EXCEPT ![p] = {}]
    /\ UNCHANGED <<calls, sq_id_seq, now, cond, cands, sel, claim_log, reavailed, put_log,
                   stale>>
    /\ SchemaUnchanged
    /\ CountEnds

Tick ==
    /\ now < MaxTime
    /\ now' = now + 1
    /\ ret' = NoReturn
    /\ UNCHANGED <<calls, table, sq_id_seq, pc, cond, cands, sel, picked, statuses, claim_log,
                   reavailed, put_log, stale, last_op>>
    /\ SchemaUnchanged
    /\ CountEnds

(***************************************************************************)
(* The store: its reachability, the queue's table and the queue object.    *)
(***************************************************************************)
\* The connection types (SQLConn.POSTGRES, SQLConn.SQLITE).
POSTGRES == "postgresql+psycopg2"
SQLITE == "sqlite"
SqlTypes == {POSTGRES, SQLITE}

\* A call that ends with an exception of this type.
RaisedAs(p, op, error) == [Raised(p, op) EXCEPT !.status = error]

\* The store becomes unreachable, and reachable again.
Outage ==
    /\ up
    /\ up' = FALSE
    /\ ret' = NoReturn
    /\ UNCHANGED <<table, sq_id_seq, now, pc, cond, cands, sel, picked, statuses,
                   claim_log, reavailed, put_log, stale, last_op, calls, columns,
                   handles, counted>>
    /\ UNCHANGED <<attempts, worker>>

Recovery ==
    /\ ~up
    /\ up' = TRUE
    /\ ret' = NoReturn
    /\ UNCHANGED <<table, sq_id_seq, now, pc, cond, cands, sel, picked, statuses,
                   claim_log, reavailed, put_log, stale, last_op, calls, columns,
                   handles, counted>>
    /\ UNCHANGED <<attempts, worker>>

\* The columns the constructor's select names.
ProbedColumns == {SQ_PRIORITY, SQ_STATUS, SQ_ID}

\* execute_sql and get_dataframe: the statement is run, and run once more on a
\* new connection when it raised; the second error reaches the caller.  Both
\* runs meet the same store, so the statement on these columns either runs or
\* raises twice.
execute_sql(cols) ==
    LET runs == up /\ cols \subseteq TableColumns
    IN  IF runs THEN TRUE ELSE runs

\* Mutant: the constructor keeps the names and sends nothing.
SQLQueue_unprobed(p) ==
    /\ Call(p)
    /\ p \notin handles
    /\ handles' = handles \cup {p}
    /\ ret' = Returned(p, "SQLQueue", 0, NULL_TEXT, <<>>, <<>>)
    /\ CountEnds
    /\ UNCHANGED <<table, sq_id_seq, now, pc, cond, cands, sel, picked, statuses,
                   claim_log, reavailed, put_log, stale, last_op, columns, up>>
    /\ UNCHANGED <<attempts, worker>>

\* SQLQueue(sql_conn, squeue_name): the constructor selects the three columns
\* from the table; any error of the select becomes a RuntimeError, and the
\* caller gets no object.
SQLQueue(p) ==
    /\ Call(p)
    /\ p \notin handles
    /\ ~(up /\ TableLockedByOther(p))
    /\ IF execute_sql(ProbedColumns)
       THEN /\ handles' = handles \cup {p}
            /\ ret' = Returned(p, "SQLQueue", 0, NULL_TEXT, <<>>, <<>>)
       ELSE /\ handles' = handles
            /\ ret' = RaisedAs(p, "SQLQueue", "RuntimeError")
    /\ CountEnds
    /\ UNCHANGED <<table, sq_id_seq, now, pc, cond, cands, sel, picked, statuses,
                   claim_log, reavailed, put_log, stale, last_op, columns, up>>
    /\ UNCHANGED <<attempts, worker>>

\* The methods of the queue object, and the statement each one is in.
Methods ==
    {"put", "claim", "get", "finish", "get_status", "available_count",
     "get_work_in_progress", "cleanup_long_running_rows", "set_destroyed"}
MethodAt(at) ==
    CASE at \in {"claim_lock", "claim_update"} -> "claim"
      [] at = "get_select" -> "get"
      [] at = "cleanup_update" -> "cleanup_long_running_rows"
      [] at \in {"sd_select", "sd_update"} -> "set_destroyed"

\* What each method returns when it finds nothing.
NothingFound(p, op) ==
    CASE op = "claim" -> Returned(p, op, NONE_AVAILABLE, NULL_TEXT, <<>>, <<>>)
      [] op = "get_status" -> Returned(p, op, 0, STATUS_NOEXIST, <<>>, <<>>)
      [] OTHER -> Returned(p, op, 0, NULL_TEXT, <<>>, <<>>)

\* Mutant: the error is caught and the method returns as if it had found nothing.
unreachable_swallowed(p, op) ==
    /\ Call(p)
    /\ p \in handles
    /\ ~execute_sql({})
    /\ ret' = NothingFound(p, op)
    /\ claim_log' = IF op = "claim" THEN Append(claim_log, NONE_AVAILABLE) ELSE claim_log
    /\ CountEnds
    /\ UNCHANGED <<table, sq_id_seq, now, pc, cond, cands, sel, picked, statuses,
                   reavailed, put_log, stale, last_op, columns, up, handles>>
    /\ UNCHANGED <<attempts, worker>>

\* A method is called while the store cannot be reached.  Its first statement
\* raises: in execute_sql, get_dataframe and append_to_table at the second run,
\* in claim, cleanup_long_running_rows and set_destroyed when the connection is
\* opened.  No method catches the error, so it reaches the caller.
unreachable(p, op) ==
    /\ Call(p)
    /\ p \in handles
    /\ ~execute_sql({})
    /\ ret' = Raised(p, op)
    /\ CountEnds
    /\ UNCHANGED <<table, sq_id_seq, now, pc, cond, cands, sel, picked, statuses,
                   claim_log, reavailed, put_log, stale, last_op, columns, up, handles>>
    /\ UNCHANGED <<attempts, worker>>

\* Mutant: an error inside set_destroyed's locked section is not raised past
\* the open connection, so the section is never left while the store is down.
abort_outside_lock(p) ==
    /\ pc[p] \notin {"idle", "sd_select", "sd_update"}
    /\ ~up
    /\ ret' = Raised(p, MethodAt(pc[p]))
    /\ pc' = [pc EXCEPT ![p] = "idle"]
    /\ cands' = [cands EXCEPT ![p] = <<>>]
    /\ sel' = [sel EXCEPT ![p] = 0]
    /\ cond' = [cond EXCEPT ![p] = NO_CONDITION]
    /\ picked' = [picked EXCEPT ![p] = <<>>]
    /\ statuses' = [statuses EXCEPT ![p] = {}]
    /\ stale' = [stale EXCEPT ![p] = FALSE]
    /\ CountEnds
    /\ UNCHANGED <<table, sq_id_seq, now, claim_log, reavailed, put_log, last_op, calls,
                   columns, up, handles>>
    /\ UNCHANGED <<attempts, worker>>

\* The store becomes unreachable while a method is between two statements: the
\* next statement raises, the connection is closed with its transaction rolled
\* back, and the error reaches the caller.
abort(p) ==
    /\ pc[p] # "idle"
    /\ ~up
    /\ ret' = Raised(p, MethodAt(pc[p]))
    /\ pc' = [pc EXCEPT ![p] = "idle"]
    /\ cands' = [cands EXCEPT ![p] = <<>>]
    /\ sel' = [sel EXCEPT ![p] = 0]
    /\ cond' = [cond EXCEPT ![p] = NO_CONDITION]
    /\ picked' = [picked EXCEPT ![p] = <<>>]
    /\ statuses' = [statuses EXCEPT ![p] = {}]
    /\ stale' = [stale EXCEPT ![p] = FALSE]
    /\ CountEnds
    /\ UNCHANGED <<table, sq_id_seq, now, claim_log, reavailed, put_log, last_op, calls,
                   columns, up, handles>>
    /\ UNCHANGED <<attempts, worker>>

\* The column descriptions callers hand to create_table: the payload column,
\* alone or with a column that has the name of one of the queue's own.
ColumnDescriptions ==
    {KIND :> "text",
     (KIND :> "text") @@ (SQ_STATUS :> "int"),
     (KIND :> "text") @@ (SQ_CLAIM_HOSTNAME :> "text")}

\* The column list create_table sends: the caller's descriptions, with the
\* entries of the queue's own columns set (and so replaced) by the method.
CreatedColumns(column_descriptions) == MetaTypes @@ column_descriptions

\* Mutant: CREATE TABLE without IF NOT EXISTS, on a store that replaces the table.
create_table_replace(p, column_descriptions, sql_type) ==
    /\ Call(p)
    /\ IF sql_type = POSTGRES
       THEN IF up
            THEN /\ columns' = CreatedColumns(column_descriptions)
                 /\ table' = <<>>
                 /\ ret' = Returned(p, "create_table", 0, NULL_TEXT, <<>>, <<>>)
            ELSE /\ ret' = Raised(p, "create_table")
                 /\ UNCHANGED <<columns, table>>
       ELSE /\ ret' = RaisedAs(p, "create_table", "TypeError")
            /\ UNCHANGED <<columns, table>>
    /\ CountEnds
    /\ UNCHANGED <<sq_id_seq, now, pc, cond, cands, sel, picked, statuses,
                   claim_log, reavailed, put_log, stale, last_op, up, handles>>
    /\ UNCHANGED <<attempts, worker>>

\* create_table(squeue_name, column_descriptions, sql_conn): on a PostgreSQL
\* connection CREATE TABLE IF NOT EXISTS with the column list, which does
\* nothing when the table exists; on any other connection a TypeError.
create_table(p, column_descriptions, sql_type) ==
    /\ Call(p)
    /\ IF sql_type = POSTGRES
       THEN IF execute_sql({})
            THEN /\ columns' = IF TableColumns = {} THEN CreatedColumns(column_descriptions)
                               ELSE columns
                 /\ ret' = Returned(p, "create_table", 0, NULL_TEXT, <<>>, <<>>)
            ELSE /\ ret' = Raised(p, "create_table")
                 /\ UNCHANGED columns
       ELSE /\ ret' = RaisedAs(p, "create_table", "TypeError")
            /\ UNCHANGED columns
    /\ CountEnds
    /\ UNCHANGED <<table, sq_id_seq, now, pc, cond, cands, sel, picked, statuses,
                   claim_log, reavailed, put_log, stale, last_op, up, handles>>
    /\ UNCHANGED <<attempts, worker>>

(***************************************************************************)
(* SQLConn.append_to_table and PostgresBridge.bulk_load on a PostgreSQL     *)
(* connection, for any table and any way of loading.                       *)
(***************************************************************************)
\* The bulk_copy options (SQLConn.BULK_FORCE, BULK_OFF, BULK_CHANCE), the
\* if_exists options, and the chance_min_length values callers pass: the
\* default, and one that the model's frames exceed.
BULK_FORCE == "BULK_FORCE"
BULK_OFF == "BULK_OFF"
BULK_CHANCE == "BULK_CHANCE"
BulkOptions == {BULK_FORCE, BULK_OFF, BULK_CHANCE}
IfExists == {"append", "replace"}
DEFAULT_CHANCE_MIN_LENGTH == 100
ChanceMinLengths == {1, DEFAULT_CHANCE_MIN_LENGTH}

\* The frames callers load: one or two rows, with or without a column that an
\* existing table may lack; every frame has the column "kind".
MaxFrame == 2
LoadFrames ==
    UNION {[1..n -> FrameRows(cols)] : n \in 1..MaxFrame, cols \in {{KIND}, {KIND, JUNK}}}

\* The table pandas creates for a frame: the frame's columns.
FrameSchema(df) == [c \in DOMAIN df[1] |-> "text"]

\* The rows of the frame as rows of a table with these columns.
InsertRows(cols, t, df, first_id, t_now) ==
    t \o [i \in 1..Len(df) |->
            [c \in DOMAIN cols |->
                IF c \in DOMAIN df[i] THEN df[i][c]
                ELSE ColumnDefault(c, first_id + i - 1, t_now)]]

\* _determine_table: an existing table is dropped for 'replace', and a table
\* that does not exist (any more) is created from the frame.
determine_table(cols, t, bulk_df, if_exists) ==
    LET exists == DOMAIN cols # {}
        drop == exists /\ if_exists = "replace"
    IN  IF drop \/ ~exists
        THEN [columns |-> FrameSchema(bulk_df), table |-> <<>>]
        ELSE [columns |-> cols, table |-> t]

\* PostgresBridge.bulk_load: _determine_table, then COPY of the frame's rows
\* into the frame's columns.  COPY raises when the table lacks one of them, or
\* when the store rejects the data; what _determine_table did stays done.
bulk_load(cols, t, bulk_df, if_exists, copy_raises, first_id, t_now) ==
    LET d == determine_table(cols, t, bulk_df, if_exists)
        ok == ~copy_raises /\ DOMAIN bulk_df[1] \subseteq DOMAIN d.columns
    IN  [ok |-> ok,
         columns |-> d.columns,
         table |-> IF ok THEN InsertRows(d.columns, d.table, bulk_df, first_id, t_now)
                   ELSE d.table]

\* Mutant: to_sql inserts into the table whatever if_exists says.
frame_to_sql_append(cols, t, temp_df, if_exists, first_id, t_now) ==
    IF DOMAIN cols = {}
    THEN [columns |-> FrameSchema(temp_df),
          table |-> InsertRows(FrameSchema(temp_df), <<>>, temp_df, first_id, t_now)]
    ELSE [columns |-> cols, table |-> InsertRows(cols, t, temp_df, first_id, t_now)]

\* DataFrame.to_sql(if_exists=...): the table is created when it does not exist,
\* dropped and created again for 'replace', and the rows are inserted.
frame_to_sql(cols, t, temp_df, if_exists, first_id, t_now) ==
    IF DOMAIN cols = {} \/ if_exists = "replace"
    THEN [columns |-> FrameSchema(temp_df),
          table |-> InsertRows(FrameSchema(temp_df), <<>>, temp_df, first_id, t_now)]
    ELSE [columns |-> cols, table |-> InsertRows(cols, t, temp_df, first_id, t_now)]

\* A loading call returns nothing: the record of its return carries the frame
\* and the if_exists it was called with.
Loaded(p, op, df, if_exists) == Returned(p, op, 0, if_exists, df, <<>>)

\* The serial after a load: rows that took their sq_id from it have advanced it.
SerialAfter(cols, df, first_id) ==
    IF SQ_ID \in DOMAIN cols /\ SQ_ID \notin DOMAIN df[1] /\ cols[SQ_ID] = MetaTypes[SQ_ID]
    THEN first_id + Len(df) ELSE first_id

\* SQLConn.append_to_table(table_name, data_to_append, if_exists, bulk_copy,
\* chance_min_length): the frame loses the columns an existing table lacks;
\* it is bulk-loaded when that is forced or the frame is long enough, and
\* loaded with to_sql when bulk loading is off, not chosen, or has raised.
SQLConn_append_to_table(p, data_to_append, if_exists, bulk_copy, chance_min_length, copy_raises) ==
    /\ Call(p)
    /\ Len(table) <= MaxRows
    /\ IF ~execute_sql({})
       THEN /\ ret' = Raised(p, "append_to_table")
            /\ UNCHANGED <<table, columns, sq_id_seq>>
       ELSE LET temp_df == IF TableColumns # {}
                           THEN get_df_interesection(data_to_append, TableColumns)
                           ELSE data_to_append
                force == \/ bulk_copy = BULK_FORCE
                         \/ bulk_copy = BULK_CHANCE /\ Len(temp_df) > chance_min_length
                bulk == bulk_load(columns, table, temp_df, if_exists, copy_raises,
                                  sq_id_seq, now)
                done == IF force /\ bulk.ok THEN bulk
                        ELSE IF force
                             THEN frame_to_sql(bulk.columns, bulk.table, temp_df, if_exists,
                                               sq_id_seq, now)
                             ELSE frame_to_sql(columns, table, temp_df, if_exists,
                                               sq_id_seq, now)
            IN  /\ columns' = done.columns
                /\ table' = done.table
                /\ sq_id_seq' = SerialAfter(done.columns, temp_df, sq_id_seq)
                /\ ret' = Loaded(p, "append_to_table", data_to_append, if_exists)
    /\ CountEnds
    /\ UNCHANGED <<now, pc, cond, cands, sel, picked, statuses, claim_log, reavailed,
                   put_log, stale, last_op, up, handles>>
    /\ UNCHANGED <<attempts, worker>>

\* sql_bridge.bulk_load(bulk_df, table_name, schema_name, if_exists): the bridge
\* called directly, with the frame as it is; an error of COPY reaches the caller.
PostgresBridge_bulk_load(p, bulk_df, if_exists, copy_raises) ==
    /\ Call(p)
    /\ Len(table) <= MaxRows
    /\ IF ~execute_sql({})
       THEN /\ ret' = Raised(p, "bulk_load")
            /\ UNCHANGED <<table, columns, sq_id_seq>>
       ELSE LET done == bulk_load(columns, table, bulk_df, if_exists, copy_raises,
                                  sq_id_seq, now)
            IN  /\ columns' = done.columns
                /\ table' = done.table
                /\ sq_id_seq' = IF done.ok THEN SerialAfter(done.columns, bulk_df, sq_id_seq)
                                 ELSE sq_id_seq
                /\ ret' = IF done.ok THEN Loaded(p, "bulk_load", bulk_df, if_exists)
                          ELSE Raised(p, "bulk_load")
    /\ CountEnds
    /\ UNCHANGED <<now, pc, cond, cands, sel, picked, statuses, claim_log, reavailed,
                   put_log, stale, last_op, up, handles>>
    /\ UNCHANGED <<attempts, worker>>

(***************************************************************************)
(* execute_sql and get_dataframe run by run.  A run of a statement ends in *)
(* one of three ways: it returns ("ok"), it raises before the statement    *)
(* has taken effect ("lost"), or it raises after the statement has been    *)
(* committed ("late": the connection breaks on the way back).  After a run *)
(* that raised, the pool is disposed of and the statement is run once      *)
(* more; what that run raises reaches the caller.                          *)
(***************************************************************************)
RunOutcomes == {"ok", "lost", "late"}
ReadOutcomes == {"ok", "lost"}

\* finish's UPDATE as one run applies it.
FinishUpdate(t, row_id, finish_status, t_now) ==
    [i \in 1..Len(t) |->
        IF t[i][SQ_ID] = row_id
        THEN [t[i] EXCEPT ![SQ_FINISH_TIME] = t_now, ![SQ_STATUS] = finish_status]
        ELSE t[i]]

\* get's UPDATE as one run applies it.
GetUpdate(t, row_id, p, t_now) ==
    [i \in 1..Len(t) |->
        IF t[i][SQ_ID] = row_id
        THEN [t[i] EXCEPT ![SQ_GET_TIME] = t_now, ![SQ_STATUS] = STATUS_PROGRESS,
                          ![SQ_GET_HOSTNAME] = gethostname(p)]
        ELSE t[i]]

\* finish: the first run of the UPDATE in execute_sql.
finish_run(p, row_id, finish_status, outcome) ==
    /\ Begin(p)
    /\ CanWrite(p, {row_id})
    /\ attempts' = [attempts EXCEPT ![p] = <<outcome>>]
    /\ table' = IF outcome = "lost" THEN table
                ELSE FinishUpdate(table, row_id, finish_status, now)
    /\ last_op' = IF outcome = "lost" THEN last_op
                  ELSE Wrote(p, "finish", finish_status, {row_id})
    /\ IF outcome = "ok"
       THEN /\ ret' = Returned(p, "finish", 0, NULL_TEXT, <<>>, <<>>)
            /\ UNCHANGED <<pc, sel, statuses>>
       ELSE /\ pc' = [pc EXCEPT ![p] = "finish_retry"]
            /\ sel' = [sel EXCEPT ![p] = row_id]
            /\ statuses' = [statuses EXCEPT ![p] = {finish_status}]
            /\ ret' = NoReturn
    /\ UNCHANGED <<sq_id_seq, now, cond, cands, picked, claim_log, reavailed, put_log,
                   stale, columns, up, handles>>
    /\ CountEnds
    /\ UNCHANGED worker

\* Mutant: the UPDATE is run again until a run returns.
finish_rerun_until_ok(p, outcome) ==
    /\ pc[p] = "finish_retry"
    /\ up
    /\ CanWrite(p, {sel[p]})
    /\ Len(attempts[p]) <= 2
    /\ attempts' = [attempts EXCEPT ![p] = Append(@, outcome)]
    /\ LET finish_status == CHOOSE x \in statuses[p] : TRUE
       IN  /\ table' = IF outcome = "lost" THEN table
                       ELSE FinishUpdate(table, sel[p], finish_status, now)
           /\ last_op' = IF outcome = "lost" THEN last_op
                         ELSE Wrote(p, "finish", finish_status, {sel[p]})
    /\ IF outcome = "ok"
       THEN /\ ret' = Returned(p, "finish", 0, NULL_TEXT, <<>>, <<>>)
            /\ pc' = [pc EXCEPT ![p] = "idle"]
            /\ sel' = [sel EXCEPT ![p] = 0]
            /\ statuses' = [statuses EXCEPT ![p] = {}]
       ELSE /\ ret' = NoReturn
            /\ UNCHANGED <<pc, sel, statuses>>
    /\ UNCHANGED <<calls, sq_id_seq, now, cond, cands, picked, claim_log, reavailed,
                   put_log, stale, columns, up, handles>>
    /\ CountEnds
    /\ UNCHANGED worker

\* finish: the run of the UPDATE in execute_sql's except clause.
finish_rerun(p, outcome) ==
    /\ pc[p] = "finish_retry"
    /\ up
    /\ CanWrite(p, {sel[p]})
    /\ attempts' = [attempts EXCEPT ![p] = Append(@, outcome)]
    /\ LET finish_status == CHOOSE x \in statuses[p] : TRUE
       IN  /\ table' = IF outcome = "lost" THEN table
                       ELSE FinishUpdate(table, sel[p], finish_status, now)
           /\ last_op' = IF outcome = "lost" THEN last_op
                         ELSE Wrote(p, "finish", finish_status, {sel[p]})
    /\ ret' = IF outcome = "ok" THEN Returned(p, "finish", 0, NULL_TEXT, <<>>, <<>>)
              ELSE Raised(p, "finish")
    /\ pc' = [pc EXCEPT ![p] = "idle"]
    /\ sel' = [sel EXCEPT ![p] = 0]
    /\ statuses' = [statuses EXCEPT ![p] = {}]
    /\ UNCHANGED <<calls, sq_id_seq, now, cond, cands, picked, claim_log, reavailed,
                   put_log, stale, columns, up, handles>>
    /\ CountEnds
    /\ UNCHANGED worker

\* get: the first run of the UPDATE in execute_sql.
get_run(p, row_id, outcome) ==
    /\ Begin(p)
    /\ CanWrite(p, {row_id})
    /\ attempts' = [attempts EXCEPT ![p] = <<outcome>>]
    /\ table' = IF outcome = "lost" THEN table ELSE GetUpdate(table, row_id, p, now)
    /\ last_op' = IF outcome = "lost" THEN last_op
                  ELSE Wrote(p, "get", STATUS_PROGRESS, {row_id})
    /\ pc' = [pc EXCEPT ![p] = IF outcome = "ok" THEN "get_select" ELSE "get_retry"]
    /\ sel' = [sel EXCEPT ![p] = row_id]
    /\ ret' = NoReturn
    /\ UNCHANGED <<sq_id_seq, now, cond, cands, picked, statuses, claim_log, reavailed,
                   put_log, stale, columns, up, handles>>
    /\ CountEnds
    /\ UNCHANGED worker

\* get: the run of the UPDATE in execute_sql's except clause.
get_rerun(p, outcome) ==
    /\ pc[p] = "get_retry"
    /\ up
    /\ CanWrite(p, {sel[p]})
    /\ attempts' = [attempts EXCEPT ![p] = Append(@, outcome)]
    /\ table' = IF outcome = "lost" THEN table ELSE GetUpdate(table, sel[p], p, now)
    /\ last_op' = IF outcome = "lost" THEN last_op
                  ELSE Wrote(p, "get", STATUS_PROGRESS, {sel[p]})
    /\ IF outcome = "ok"
       THEN /\ pc' = [pc EXCEPT ![p] = "get_select"]
            /\ ret' = NoReturn
            /\ UNCHANGED sel
       ELSE /\ pc' = [pc EXCEPT ![p] = "idle"]
            /\ ret' = Raised(p, "get")
            /\ sel' = [sel EXCEPT ![p] = 0]
    /\ UNCHANGED <<calls, sq_id_seq, now, cond, cands, picked, statuses, claim_log,
                   reavailed, put_log, stale, columns, up, handles>>
    /\ CountEnds
    /\ UNCHANGED worker

\* get: the first run of the SELECT in get_dataframe.
get_select_run(p, outcome) ==
    /\ pc[p] = "get_select"
    /\ up
    /\ ~TableLockedByOther(p)
    /\ attempts' = [attempts EXCEPT ![p] = <<outcome>>]
    /\ IF outcome = "ok"
       THEN /\ ret' = Returned(p, "get", sel[p], NULL_TEXT,
                               SelectWhere(table, LAMBDA r : r[SQ_ID] = sel[p]), <<>>)
            /\ pc' = [pc EXCEPT ![p] = "idle"]
            /\ sel' = [sel EXCEPT ![p] = 0]
       ELSE /\ ret' = NoReturn
            /\ pc' = [pc EXCEPT ![p] = "get_select_retry"]
            /\ UNCHANGED sel
    /\ UNCHANGED <<calls, table, sq_id_seq, now, cond, cands, picked, statuses, claim_log,
                   reavailed, put_log, stale, last_op, columns, up, handles>>
    /\ CountEnds
    /\ UNCHANGED worker

\* get: the run of the SELECT in get_dataframe's except clause.
get_select_rerun(p, outcome) ==
    /\ pc[p] = "get_select_retry"
    /\ up
    /\ ~TableLockedByOther(p)
    /\ attempts' = [attempts EXCEPT ![p] = Append(@, outcome)]
    /\ ret' = IF outcome = "ok"
              THEN Returned(p, "get", sel[p], NULL_TEXT,
                            SelectWhere(table, LAMBDA r : r[SQ_ID] = sel[p]), <<>>)
              ELSE Raised(p, "get")
    /\ pc' = [pc EXCEPT ![p] = "idle"]
    /\ sel' = [sel EXCEPT ![p] = 0]
    /\ UNCHANGED <<calls, table, sq_id_seq, now, cond, cands, picked, statuses, claim_log,
                   reavailed, put_log, stale, last_op, columns, up, handles>>
    /\ CountEnds
    /\ UNCHANGED worker

(***************************************************************************)
(* append_to_table run by run, as put calls it on the queue's table.  The  *)
(* frame is bulk-loaded when bulk_copy is BULK_FORCE, which is what the    *)
(* code makes of BULK_CHANCE for a frame of more than chance_min_length    *)
(* rows; a bulk load that raised is followed by to_sql, and a to_sql that  *)
(* raised by one more to_sql.  A run returns ("ok"), raises before the     *)
(* store has committed its rows ("lost"), or raises after the commit, when *)
(* the connection breaks before the answer arrives ("late").  cands[p]     *)
(* keeps the frame between the runs of one call.                           *)
(***************************************************************************)
PutOptions == {BULK_CHANCE, BULK_FORCE}
AppendStates == {"append_to_sql", "append_retry"}

\* The frame is bulk-loaded.
Forced(temp_df, bulk_copy, chance_min_length) ==
    \/ bulk_copy = BULK_FORCE
    \/ bulk_copy = BULK_CHANCE /\ Len(temp_df) > chance_min_length

\* One run of a load of the frame df for p: unless it is lost, the rows are
\* inserted with sq_ids from the serial.
LoadRun(p, df, outcome) ==
    /\ ~TableLockedByOther(p)
    /\ outcome # "lost" => Len(table) + Len(df) <= MaxRows
    /\ table' = IF outcome = "lost" THEN table
                ELSE append_to_table(table, df, sq_id_seq, now)
    /\ sq_id_seq' = IF outcome = "lost" THEN sq_id_seq ELSE sq_id_seq + Len(df)
    /\ put_log' = IF outcome = "lost" THEN put_log
                  ELSE put_log \o [i \in 1..Len(df) |-> [c \in {KIND} |-> df[i][c]]]
    /\ last_op' = IF outcome = "lost" THEN last_op
                  ELSE last_op \o [i \in 1..Len(df) |->
                           [op |-> "put", proc |-> p, status |-> STATUS_AVAILABLE]]
    /\ stale' = MarkStale(p, outcome # "lost")

\* put of a long batch: sql_bridge.bulk_load; its error is swallowed and
\* to_sql follows.
append_bulk_run(p, df, bulk_copy, outcome) ==
    /\ Begin(p)
    /\ Forced(df, bulk_copy, DEFAULT_CHANCE_MIN_LENGTH)
    /\ LoadRun(p, put_frame(p, df, FALSE, MIN_PRIORITY), outcome)
    /\ attempts' = [attempts EXCEPT ![p] = <<outcome>>]
    /\ IF outcome = "ok"
       THEN /\ ret' = Returned(p, "put", 0, NULL_TEXT, <<>>, <<>>)
            /\ UNCHANGED <<pc, cands>>
       ELSE /\ pc' = [pc EXCEPT ![p] = "append_to_sql"]
            /\ cands' = [cands EXCEPT ![p] = put_frame(p, df, FALSE, MIN_PRIORITY)]
            /\ ret' = NoReturn
    /\ UNCHANGED <<now, cond, sel, picked, statuses, claim_log, reavailed, columns, up,
                   handles>>
    /\ CountEnds
    /\ UNCHANGED worker

\* put of a short batch: the first to_sql.
append_to_sql_run(p, df, bulk_copy, outcome) ==
    /\ Begin(p)
    /\ ~Forced(df, bulk_copy, DEFAULT_CHANCE_MIN_LENGTH)
    /\ LoadRun(p, put_frame(p, df, FALSE, MIN_PRIORITY), outcome)
    /\ attempts' = [attempts EXCEPT ![p] = <<outcome>>]
    /\ IF outcome = "ok"
       THEN /\ ret' = Returned(p, "put", 0, NULL_TEXT, <<>>, <<>>)
            /\ UNCHANGED <<pc, cands>>
       ELSE /\ pc' = [pc EXCEPT ![p] = "append_retry"]
            /\ cands' = [cands EXCEPT ![p] = put_frame(p, df, FALSE, MIN_PRIORITY)]
            /\ ret' = NoReturn
    /\ UNCHANGED <<now, cond, sel, picked, statuses, claim_log, reavailed, columns, up,
                   handles>>
    /\ CountEnds
    /\ UNCHANGED worker

\* The first to_sql after a bulk load that raised.
append_fallback_run(p, outcome) ==
    /\ pc[p] = "append_to_sql"
    /\ up
    /\ LoadRun(p, cands[p], outcome)
    /\ attempts' = [attempts EXCEPT ![p] = Append(@, outcome)]
    /\ IF outcome = "ok"
       THEN /\ ret' = Returned(p, "put", 0, NULL_TEXT, <<>>, <<>>)
            /\ pc' = [pc EXCEPT ![p] = "idle"]
            /\ cands' = [cands EXCEPT ![p] = <<>>]
       ELSE /\ pc' = [pc EXCEPT ![p] = "append_retry"]
            /\ ret' = NoReturn
            /\ UNCHANGED cands
    /\ UNCHANGED <<calls, now, cond, sel, picked, statuses, claim_log, reavailed, columns,
                   up, handles>>
    /\ CountEnds
    /\ UNCHANGED worker

\* The to_sql of append_to_table's except clause, after dispose(): what it
\* raises reaches the caller of put.
append_to_sql_rerun(p, outcome) ==
    /\ pc[p] = "append_retry"
    /\ up
    /\ LoadRun(p, cands[p], outcome)
    /\ attempts' = [attempts EXCEPT ![p] = Append(@, outcome)]
    /\ ret' = IF outcome = "ok" THEN Returned(p, "put", 0, NULL_TEXT, <<>>, <<>>)
              ELSE Raised(p, "put")
    /\ pc' = [pc EXCEPT ![p] = "idle"]
    /\ cands' = [cands EXCEPT ![p] = <<>>]
    /\ UNCHANGED <<calls, now, cond, sel, picked, statuses, claim_log, reavailed, columns,
                   up, handles>>
    /\ CountEnds
    /\ UNCHANGED worker

(***************************************************************************)
(* The worker loop: claim a row, get it, finish it, and claim again.  A    *)
(* worker keeps the sq_id its claim returned and passes it, once, to get   *)
(* and then to finish.  worker[p].got and worker[p].finished record the    *)
(* rows get has returned to p and the rows p has finished.                 *)
(***************************************************************************)
WorkerOutcomes == {STATUS_COMPLETED, STATUS_EXCEPTION}

\* The worker calls claim when it holds no row.
worker_claim_select(p) ==
    /\ worker[p].at = "claim"
    /\ claim_select(p, NO_CONDITION)

\* claim's update and return; the worker keeps the sq_id for its get.
worker_claim_update(p) ==
    /\ pc[p] = "claim_update"
    /\ up
    /\ IF {SQ_STATUS, SQ_CLAIM_TIME, SQ_CLAIM_HOSTNAME, SQ_ID} \subseteq TableColumns
       THEN /\ table' = UpdateWhere(table, LAMBDA r : r[SQ_ID] = sel[p],
                                    SQ_STATUS :> STATUS_CLAIMED @@ SQ_CLAIM_TIME :> now
                                        @@ SQ_CLAIM_HOSTNAME :> gethostname(p))
            /\ last_op' = Wrote(p, "claim", STATUS_CLAIMED, {sel[p]})
            /\ claim_return(p, Returned(p, "claim", sel[p], NULL_TEXT, <<>>, <<>>))
            /\ worker' = [worker EXCEPT ![p].row_id = sel[p], ![p].at = "get"]
       ELSE /\ claim_return(p, Raised(p, "claim"))
            /\ UNCHANGED <<table, last_op, worker>>
    /\ UNCHANGED <<calls, sq_id_seq, now, picked, statuses, reavailed, put_log,
                   columns, up, handles, attempts>>
    /\ CountClaim(p, cond[p])

\* The worker calls get with the sq_id it holds: get's update.
worker_get_update(p) ==
    /\ worker[p].at = "get"
    /\ get_update(p, worker[p].row_id)

\* get's select and return; the worker has the row and will finish it.
worker_get_select(p) ==
    /\ pc[p] = "get_select"
    /\ up
    /\ ~TableLockedByOther(p)
    /\ ret' = Returned(p, "get", sel[p], NULL_TEXT,
                       SelectWhere(table, LAMBDA r : r[SQ_ID] = sel[p]), <<>>)
    /\ worker' = [worker EXCEPT ![p].at = "finish",
                                ![p].got = @ \cup IdsOf(ret'.rows)]
    /\ pc' = [pc EXCEPT ![p] = "idle"]
    /\ sel' = [sel EXCEPT ![p] = 0]
    /\ UNCHANGED <<calls, table, sq_id_seq, now, cond, cands, picked, statuses, claim_log,
                   reavailed, put_log, stale, last_op, columns, up, handles, attempts>>
    /\ CountEnds

\* The worker calls finish with the sq_id it holds, and is free to claim again.
worker_finish(p, finish_status) ==
    /\ worker[p].at = "finish"
    /\ Begin(p)
    /\ CanWrite(p, {worker[p].row_id})
    /\ table' = UpdateWhere(table, LAMBDA r : r[SQ_ID] = worker[p].row_id,
                            SQ_FINISH_TIME :> now @@ SQ_STATUS :> finish_status)
    /\ reavailed' = (reavailed \/
                        SetsBack(table, LAMBDA r : r[SQ_ID] = worker[p].row_id,
                                 finish_status))
    /\ stale' = MarkStale(p, SetsBack(table, LAMBDA r : r[SQ_ID] = worker[p].row_id,
                                      finish_status))
    /\ last_op' = Wrote(p, "finish", finish_status, {worker[p].row_id})
    /\ ret' = Returned(p, "finish", 0, NULL_TEXT, <<>>, <<>>)
    /\ worker' = [worker EXCEPT ![p].row_id = 0, ![p].at = "claim",
                                ![p].finished = @ \cup {worker[p].row_id}]
    /\ UNCHANGED <<sq_id_seq, now, pc, cond, cands, sel, picked, statuses, claim_log,
                   put_log, columns, up, handles, attempts>>
    /\ CountEnds

(***************************************************************************)
(* The queue in use: every method, called by every process at any time,    *)
(* on frames of one kind of work.                                          *)
(***************************************************************************)
PlainFrames == UNION {[1..n -> {[kind |-> "a"]}] : n \in 1..MaxBatch}

Next ==
    \/ \E p \in Procs, df \in PlainFrames, priority \in PriorityArguments :
         put(p, df, FALSE, priority)
    \/ \E p \in Procs : claim_select(p, NO_CONDITION)
    \/ \E p \in Procs : claim_lock(p)
    \/ \E p \in Procs : claim_update(p)
    \/ \E p \in Procs : claim_abort(p)
    \/ \E p \in Procs, row_id \in RowIds : get_update(p, row_id)
    \/ \E p \in Procs : get_select(p)
    \/ \E p \in Procs, row_id \in RowIds, s \in FinishStatuses : finish(p, row_id, s)
    \/ \E p \in Procs, row_id \in RowIds : get_status(p, row_id)
    \/ \E p \in Procs, ip \in Timeouts, cl \in Timeouts : cleanup_select(p, ip, cl)
    \/ \E p \in Procs : cleanup_update(p)
    \/ \E p \in Procs, l \in StatusLists : set_destroyed_lock(p, l)
    \/ \E p \in Procs : set_destroyed_select(p)
    \/ \E p \in Procs : set_destroyed_update(p)
    \/ Tick

Spec == Init /\ [][Next]_vars

(***************************************************************************)
(* Claims with predicates: work of two kinds is put, claimed with and       *)
(* without a predicate, and finished.                                      *)
(***************************************************************************)
KindFrames == UNION {[1..n -> FrameRows({KIND})] : n \in 1..MaxBatch}

NextClaim ==
    \/ \E p \in Procs, df \in KindFrames, priority \in PriorityArguments :
         put(p, df, FALSE, priority)
    \/ \E p \in Procs, c \in Conditions : claim_select(p, c)
    \/ \E p \in Procs : claim_lock(p)
    \/ \E p \in Procs : claim_update(p)
    \/ \E p \in Procs : claim_abort(p)
    \/ \E p \in Procs, row_id \in RowIds, s \in FinishStatuses : finish(p, row_id, s)

SpecClaim == Init /\ [][NextClaim]_vars

(***************************************************************************)
(* The round trip of a row: one process puts frames of every shape, and    *)
(* every process claims, fetches and finishes rows.                        *)
(***************************************************************************)
\* The processes that put; every process claims, fetches and finishes.
Producers == {1}

NextRound ==
    \/ \E p \in Producers, cols \in FrameColumnSets :
         \E df \in Frames(cols), priority_included \in BOOLEAN :
             put(p, df, priority_included, MAX_PRIORITY)
    \/ \E p \in Procs : claim_select(p, NO_CONDITION)
    \/ \E p \in Procs : claim_lock(p)
    \/ \E p \in Procs : claim_update(p)
    \/ \E p \in Procs, row_id \in RowIds : get_update(p, row_id)
    \/ \E p \in Procs : get_select(p)
    \/ \E p \in Procs, row_id \in RowIds : finish(p, row_id, STATUS_COMPLETED)

SpecRound == Init /\ [][NextRound]_vars

(***************************************************************************)
(* A static backlog: the queue holds the rows of earlier puts, and from    *)
(* then on claim is the only method called.                                *)
(***************************************************************************)
BacklogPriorities == {1, 5, 9}

\* The table after one put of a one-row frame for each priority, in this order.
RECURSIVE Enqueued(_)
Enqueued(priorities) ==
    IF priorities = <<>> THEN <<>>
    ELSE LET n == Len(priorities)
         IN  append_to_table(Enqueued(SubSeq(priorities, 1, n - 1)),
                             put_frame(1, <<[kind |-> "a"]>>, FALSE, priorities[n]),
                             n, 0)

InitBacklog ==
    /\ columns = QueueSchema
    /\ up = TRUE
    /\ handles = Procs
    /\ counted = NotCounting
    /\ attempts = [p \in Procs |-> <<>>]
    /\ worker = [p \in Procs |-> [row_id |-> 0, at |-> "claim", got |-> {}, finished |-> {}]]
    /\ \E n \in 0..MaxBacklog : \E priorities \in [1..n -> BacklogPriorities] :
          /\ table = Enqueued(priorities)
          /\ sq_id_seq = n + 1
          /\ put_log = [i \in 1..n |-> [kind |-> "a"]]
          /\ last_op = [i \in 1..n |->
                           [op |-> "put", proc |-> 1, status |-> STATUS_AVAILABLE]]
    /\ now = 0
    /\ pc = [p \in Procs |-> "idle"]
    /\ cond = [p \in Procs |-> NO_CONDITION]
    /\ cands = [p \in Procs |-> <<>>]
    /\ sel = [p \in Procs |-> 0]
    /\ picked = [p \in Procs |-> <<>>]
    /\ statuses = [p \in Procs |-> {}]
    /\ ret = NoReturn
    /\ claim_log = <<>>
    /\ reavailed = FALSE
    /\ stale = [p \in Procs |-> FALSE]
    /\ calls = 0

NextBacklog ==
    \/ \E p \in Procs : claim_select(p, NO_CONDITION)
    \/ \E p \in Procs : claim_lock(p)
    \/ \E p \in Procs : claim_update(p)

SpecBacklog == InitBacklog /\ [][NextBacklog]_vars

\* The backlog drained: workers keep calling claim while calls can be made, and
\* every claim that has started is scheduled: its locking select and its
\* update run when they are not kept waiting.
KeepsClaiming == WF_vars(\E p \in Procs : claim_select(p, NO_CONDITION))
Scheduled(p) == WF_vars(claim_lock(p)) /\ WF_vars(claim_update(p))

SpecDrain ==
    InitBacklog /\ [][NextBacklog]_vars /\ KeepsClaiming /\ \A p \in Procs : Scheduled(p)

(***************************************************************************)
(* The recovery scanner with nothing running beside it: one process makes  *)
(* every call, one after the other, while the clock advances.              *)
(***************************************************************************)
Callers == {1}
ScanTimeouts == {0, 1}

NextScan ==
    \/ \E p \in Callers, df \in PlainFrames : put(p, df, FALSE, MIN_PRIORITY)
    \/ \E p \in Callers : claim_select(p, NO_CONDITION)
    \/ \E p \in Callers : claim_lock(p)
    \/ \E p \in Callers : claim_update(p)
    \/ \E p \in Callers, row_id \in RowIds : get_update(p, row_id)
    \/ \E p \in Callers : get_select(p)
    \/ \E p \in Callers, row_id \in RowIds : finish(p, row_id, STATUS_COMPLETED)
    \/ \E p \in Callers, ip \in ScanTimeouts, cl \in ScanTimeouts :
         cleanup_select(p, ip, cl)
    \/ \E p \in Callers : cleanup_update(p)
    \/ Tick

SpecScan == Init /\ [][NextScan]_vars

(***************************************************************************)
(* Forced destroy while the queue is in use: workers put, claim, fetch and *)
(* finish while an operator calls set_destroyed.                           *)
(***************************************************************************)
NextDestroy ==
    \/ \E p \in Procs, df \in PlainFrames : put(p, df, FALSE, MIN_PRIORITY)
    \/ \E p \in Procs : claim_select(p, NO_CONDITION)
    \/ \E p \in Procs : claim_lock(p)
    \/ \E p \in Procs : claim_update(p)
    \/ \E p \in Procs, row_id \in RowIds : get_update(p, row_id)
    \/ \E p \in Procs : get_select(p)
    \/ \E p \in Procs, row_id \in RowIds : finish(p, row_id, STATUS_COMPLETED)
    \/ \E p \in Procs, l \in StatusLists : set_destroyed_lock(p, l)
    \/ \E p \in Procs : set_destroyed_select(p)
    \/ \E p \in Procs : set_destroyed_update(p)

SpecDestroy == Init /\ [][NextDestroy]_vars

(***************************************************************************)
(* A producer hands put frames of every shape, with and without columns of *)
(* the queue's own, while workers claim.                                   *)
(***************************************************************************)
NextPut ==
    \/ \E p \in Producers, cols \in FrameColumnSets :
         \E df \in Frames(cols), priority_included \in BOOLEAN,
            priority \in PriorityArguments :
             put(p, df, priority_included, priority)
    \/ \E p \in Producers, cols \in MetaColumnSets :
         \E df \in MetaFrames(cols) : put(p, df, FALSE, MIN_PRIORITY)
    \/ \E p \in Procs : claim_select(p, NO_CONDITION)
    \/ \E p \in Procs : claim_lock(p)
    \/ \E p \in Procs : claim_update(p)

SpecPut == Init /\ [][NextPut]_vars

(***************************************************************************)
(* Every method of the queue, the read-only ones included, called by every *)
(* process at any time.                                                    *)
(***************************************************************************)
NextRows ==
    \/ \E p \in Procs, df \in PlainFrames : put(p, df, FALSE, MIN_PRIORITY)
    \/ \E p \in Procs : claim_select(p, NO_CONDITION)
    \/ \E p \in Procs : claim_lock(p)
    \/ \E p \in Procs : claim_update(p)
    \/ \E p \in Procs, row_id \in RowIds : get_update(p, row_id)
    \/ \E p \in Procs : get_select(p)
    \/ \E p \in Procs, row_id \in RowIds : finish(p, row_id, STATUS_COMPLETED)
    \/ \E p \in Procs, row_id \in RowIds : get_status(p, row_id)
    \/ \E p \in Procs : available_count(p, NO_CONDITION)
    \/ \E p \in Procs : get_work_in_progress(p)
    \/ \E p \in Procs, ip \in Timeouts, cl \in Timeouts : cleanup_select(p, ip, cl)
    \/ \E p \in Procs : cleanup_update(p)
    \/ \E p \in Procs, l \in StatusLists : set_destroyed_lock(p, l)
    \/ \E p \in Procs : set_destroyed_select(p)
    \/ \E p \in Procs : set_destroyed_update(p)
    \/ Tick

SpecRows == Init /\ [][NextRows]_vars

(***************************************************************************)
(* Workers that pass finish any status text, a terminal one or not.        *)
(***************************************************************************)
CallerStatuses == {STATUS_COMPLETED, STATUS_EXCEPTION, STATUS_RECOVERABLE, STATUS_NOEXIST}

NextFinish ==
    \/ \E p \in Procs, df \in PlainFrames : put(p, df, FALSE, MIN_PRIORITY)
    \/ \E p \in Procs : claim_select(p, NO_CONDITION)
    \/ \E p \in Procs : claim_lock(p)
    \/ \E p \in Procs : claim_update(p)
    \/ \E p \in Procs, row_id \in RowIds : get_update(p, row_id)
    \/ \E p \in Procs : get_select(p)
    \/ \E p \in Procs, row_id \in RowIds, s \in CallerStatuses : finish(p, row_id, s)
    \/ \E p \in Procs, row_id \in RowIds : get_status(p, row_id)

SpecFinish == Init /\ [][NextFinish]_vars

(***************************************************************************)
(* A store on which the queue is set up: there is no table of the queue's  *)
(* name, or one that is no queue; processes create the table, construct    *)
(* queue objects and use them, and the store is not always reachable.      *)
(***************************************************************************)
FreshSchemas == {<<>>, KIND :> "text"}

InitFresh ==
    /\ columns \in FreshSchemas
    /\ up = TRUE
    /\ handles = {}
    /\ counted = NotCounting
    /\ attempts = [p \in Procs |-> <<>>]
    /\ worker = [p \in Procs |-> [row_id |-> 0, at |-> "claim", got |-> {}, finished |-> {}]]
    /\ table = <<>>
    /\ sq_id_seq = 1
    /\ now = 0
    /\ pc = [p \in Procs |-> "idle"]
    /\ cond = [p \in Procs |-> NO_CONDITION]
    /\ cands = [p \in Procs |-> <<>>]
    /\ sel = [p \in Procs |-> 0]
    /\ picked = [p \in Procs |-> <<>>]
    /\ statuses = [p \in Procs |-> {}]
    /\ ret = NoReturn
    /\ claim_log = <<>>
    /\ reavailed = FALSE
    /\ put_log = <<>>
    /\ stale = [p \in Procs |-> FALSE]
    /\ last_op = <<>>
    /\ calls = 0

NextFresh ==
    \/ \E p \in Procs, cd \in ColumnDescriptions, ty \in SqlTypes : create_table(p, cd, ty)
    \/ \E p \in Procs : SQLQueue(p)
    \/ \E p \in Procs, df \in PlainFrames : put(p, df, FALSE, MIN_PRIORITY)
    \/ \E p \in Procs : claim_select(p, NO_CONDITION)
    \/ \E p \in Procs : claim_lock(p)
    \/ \E p \in Procs : claim_update(p)
    \/ \E p \in Procs, row_id \in RowIds : get_update(p, row_id)
    \/ \E p \in Procs : get_select(p)
    \/ \E p \in Procs, row_id \in RowIds : finish(p, row_id, STATUS_COMPLETED)
    \/ \E p \in Procs, op \in Methods : unreachable(p, op)
    \/ \E p \in Procs : abort(p)
    \/ Outage
    \/ Recovery

SpecFresh == InitFresh /\ [][NextFresh]_vars

(***************************************************************************)
(* A queue in use on a store that is not always reachable.                 *)
(***************************************************************************)
NextOutage ==
    \/ \E p \in Procs, df \in PlainFrames : put(p, df, FALSE, MIN_PRIORITY)
    \/ \E p \in Procs : claim_select(p, NO_CONDITION)
    \/ \E p \in Procs : claim_lock(p)
    \/ \E p \in Procs : claim_update(p)
    \/ \E p \in Procs, row_id \in RowIds : get_update(p, row_id)
    \/ \E p \in Procs : get_select(p)
    \/ \E p \in Procs, row_id \in RowIds : finish(p, row_id, STATUS_COMPLETED)
    \/ \E p \in Procs, row_id \in RowIds : get_status(p, row_id)
    \/ \E p \in Procs : available_count(p, NO_CONDITION)
    \/ \E p \in Procs : get_work_in_progress(p)
    \/ \E p \in Procs, ip \in Timeouts, cl \in Timeouts : cleanup_select(p, ip, cl)
    \/ \E p \in Procs : cleanup_update(p)
    \/ \E p \in Procs, l \in StatusLists : set_destroyed_lock(p, l)
    \/ \E p \in Procs : set_destroyed_select(p)
    \/ \E p \in Procs : set_destroyed_update(p)
    \/ \E p \in Procs, op \in Methods : unreachable(p, op)
    \/ \E p \in Procs : abort(p)
    \/ Outage
    \/ Recovery
    \/ Tick

SpecOutage == Init /\ [][NextOutage]_vars

(***************************************************************************)
(* One process alone: it puts work of two kinds, counts what is available, *)
(* claims with and without a predicate, fetches and finishes.              *)
(***************************************************************************)
NextCount ==
    \/ \E p \in Callers, df \in KindFrames : put(p, df, FALSE, MIN_PRIORITY)
    \/ \E p \in Callers, c \in Conditions : available_count(p, c)
    \/ \E p \in Callers, c \in Conditions : claim_select(p, c)
    \/ \E p \in Callers : claim_lock(p)
    \/ \E p \in Callers : claim_update(p)
    \/ \E p \in Callers, row_id \in RowIds : get_update(p, row_id)
    \/ \E p \in Callers : get_select(p)
    \/ \E p \in Callers, row_id \in RowIds, s \in FinishStatuses : finish(p, row_id, s)

SpecCount == Init /\ [][NextCount]_vars

(***************************************************************************)
(* Frames loaded into a table that exists or not, in every way the         *)
(* connection offers.                                                      *)
(***************************************************************************)
NextLoad ==
    \/ \E p \in Callers, df \in LoadFrames, ie \in IfExists, bc \in BulkOptions :
         \E cm \in ChanceMinLengths, copy_raises \in BOOLEAN :
             SQLConn_append_to_table(p, df, ie, bc, cm, copy_raises)
    \/ \E p \in Callers, df \in LoadFrames, ie \in IfExists, copy_raises \in BOOLEAN :
         PostgresBridge_bulk_load(p, df, ie, copy_raises)

SpecLoad == InitFresh /\ [][NextLoad]_vars

(***************************************************************************)
(* Finish out of order: workers finish any row with any outcome, whether   *)
(* they hold it or not, while rows are claimed, fetched and destroyed.     *)
(***************************************************************************)
Outcomes == {STATUS_COMPLETED, STATUS_EXCEPTION, STATUS_AVAILABLE}

NextOverwrite ==
    \/ \E p \in Procs, df \in PlainFrames : put(p, df, FALSE, MIN_PRIORITY)
    \/ \E p \in Procs : claim_select(p, NO_CONDITION)
    \/ \E p \in Procs : claim_lock(p)
    \/ \E p \in Procs : claim_update(p)
    \/ \E p \in Procs, row_id \in RowIds : get_update(p, row_id)
    \/ \E p \in Procs : get_select(p)
    \/ \E p \in Procs, row_id \in RowIds, s \in Outcomes : finish(p, row_id, s)
    \/ \E p \in Procs, l \in StatusLists : set_destroyed_lock(p, l)
    \/ \E p \in Procs : set_destroyed_select(p)
    \/ \E p \in Procs : set_destroyed_update(p)
    \/ Tick

SpecOverwrite == Init /\ [][NextOverwrite]_vars

(***************************************************************************)
(* Workers in their loop, while rows are put, the scanner runs and an      *)
(* operator destroys rows.  Every process is a worker, and every process   *)
(* makes the other calls too.                                              *)
(***************************************************************************)
NextWork ==
    \/ \E p \in Procs, df \in PlainFrames : put(p, df, FALSE, MIN_PRIORITY)
    \/ \E p \in Procs : worker_claim_select(p)
    \/ \E p \in Procs : claim_lock(p)
    \/ \E p \in Procs : worker_claim_update(p)
    \/ \E p \in Procs : worker_get_update(p)
    \/ \E p \in Procs : worker_get_select(p)
    \/ \E p \in Procs, s \in WorkerOutcomes : worker_finish(p, s)
    \/ \E p \in Procs, ip \in Timeouts, cl \in Timeouts : cleanup_select(p, ip, cl)
    \/ \E p \in Procs : cleanup_update(p)
    \/ \E p \in Procs, l \in StatusLists : set_destroyed_lock(p, l)
    \/ \E p \in Procs : set_destroyed_select(p)
    \/ \E p \in Procs : set_destroyed_update(p)
    \/ Tick

SpecWork == Init /\ [][NextWork]_vars

(***************************************************************************)
(* Producers on a connection that breaks: every process puts batches,     *)
(* short and long, and every run of a load may raise.                      *)
(***************************************************************************)
NextAppend ==
    \/ \E p \in Procs, df \in PlainFrames, bc \in PutOptions, o \in RunOutcomes :
         append_bulk_run(p, df, bc, o)
    \/ \E p \in Procs, df \in PlainFrames, bc \in PutOptions, o \in RunOutcomes :
         append_to_sql_run(p, df, bc, o)
    \/ \E p \in Procs, o \in RunOutcomes : append_fallback_run(p, o)
    \/ \E p \in Procs, o \in RunOutcomes : append_to_sql_rerun(p, o)
    \/ Tick

SpecAppend == Init /\ [][NextAppend]_vars

(***************************************************************************)
(* Workers on a connection that breaks: the rows are put and claimed, and  *)
(* every run of a statement of get and finish may return or raise, before  *)
(* or after the statement has taken effect, while the clock advances.      *)
(***************************************************************************)
RetryRowIds == 1..MaxBatch

NextRetry ==
    \/ \E p \in Callers, df \in PlainFrames : put(p, df, FALSE, MIN_PRIORITY)
    \/ \E p \in Procs : claim_select(p, NO_CONDITION)
    \/ \E p \in Procs : claim_lock(p)
    \/ \E p \in Procs : claim_update(p)
    \/ \E p \in Procs, row_id \in RetryRowIds, o \in RunOutcomes : get_run(p, row_id, o)
    \/ \E p \in Procs, o \in RunOutcomes : get_rerun(p, o)
    \/ \E p \in Procs, o \in ReadOutcomes : get_select_run(p, o)
    \/ \E p \in Procs, o \in ReadOutcomes : get_select_rerun(p, o)
    \/ \E p \in Procs, row_id \in RetryRowIds, o \in RunOutcomes :
         finish_run(p, row_id, STATUS_COMPLETED, o)
    \/ \E p \in Procs, o \in RunOutcomes : finish_rerun(p, o)
    \/ Tick

SpecRetry == Init /\ [][NextRetry]_vars

(***************************************************************************)
(* The table lock over time: producers put and workers claim while an      *)
(* operator calls set_destroyed and the store is not always reachable.  A  *)
(* call that has started goes on: its next statement runs, or raises.      *)
(***************************************************************************)
NextRelease ==
    \/ \E p \in Procs, df \in PlainFrames : put(p, df, FALSE, MIN_PRIORITY)
    \/ \E p \in Procs : claim_select(p, NO_CONDITION)
    \/ \E p \in Procs : claim_lock(p)
    \/ \E p \in Procs : claim_update(p)
    \/ \E p \in Procs, l \in StatusLists : set_destroyed_lock(p, l)
    \/ \E p \in Procs : set_destroyed_select(p)
    \/ \E p \in Procs : set_destroyed_update(p)
    \/ \E p \in Procs : abort(p)
    \/ Outage
    \/ Recovery

\* The next statement of p's call in progress: it runs, or it raises.
Proceeds(p) ==
    \/ claim_lock(p)
    \/ claim_update(p)
    \/ set_destroyed_select(p)
    \/ set_destroyed_update(p)
    \/ abort(p)

SpecRelease ==
    Init /\ [][NextRelease]_vars /\ \A p \in Procs : WF_vars(Proceeds(p))

(***************************************************************************)
(* Properties.                                                             *)
(***************************************************************************)
HasRow(t, id) == \E i \in 1..Len(t) : t[i][SQ_ID] = id

Range(rows) == {rows[i] : i \in 1..Len(rows)}

\* Row q is served before row r: higher priority, or the same and inserted earlier.
Outranks(q, r) ==
    \/ q[SQ_PRIORITY] > r[SQ_PRIORITY]
    \/ q[SQ_PRIORITY] = r[SQ_PRIORITY] /\ q[SQ_ID] < r[SQ_ID]

\* No sq_id occurs twice among the values claim calls returned.
NoDuplicates(log) ==
    \A i, j \in 1..Len(log) : (i # j /\ log[i] = log[j]) => log[i] = NONE_AVAILABLE

\* This step is a claim of p returning the sq_id of a row.
ClaimReturnsRow(p) ==
    /\ ret'.op = "claim" /\ ret'.proc = p /\ ~ret'.raised
    /\ ret'.id # NONE_AVAILABLE
    /\ pc[p] = "claim_update"

\* This step is a step of p's claim after which the claim goes on.
ClaimContinues(p) ==
    /\ pc'[p] \in {"claim_lock", "claim_update"}
    /\ pc'[p] # pc[p] \/ cands'[p] # cands[p]

\* C1: as long as no row's status was set back to AVAILABLE, no two claim calls
\* have returned the same sq_id, however their selects and updates interleave.
C1_ClaimsDistinct == ~reavailed => NoDuplicates(claim_log)

\* C1 witness: two claims of different processes have returned two rows.
C1_Witness ==
    /\ ~reavailed
    /\ ret.op = "claim" /\ ~ret.raised /\ ret.id # NONE_AVAILABLE
    /\ \E i, j \in 1..Len(table) :
          /\ table[i][SQ_STATUS] = STATUS_CLAIMED /\ table[j][SQ_STATUS] = STATUS_CLAIMED
          /\ table[i][SQ_CLAIM_HOSTNAME] # table[j][SQ_CLAIM_HOSTNAME]
          /\ table[i][SQ_ID] \in {claim_log[k] : k \in 1..Len(claim_log)}
          /\ table[j][SQ_ID] \in {claim_log[k] : k \in 1..Len(claim_log)}

\* The sq_ids of rows among the values claim calls returned, and the number of
\* calls that returned "none available".
Claimed(log) == {log[i] : i \in 1..Len(log)} \ {NONE_AVAILABLE}
NoneReturned(log) == Cardinality({i \in 1..Len(log) : log[i] = NONE_AVAILABLE})

\* C2: once all of n concurrent claim calls on a backlog of k AVAILABLE rows have
\* returned, min(n, k) of them have returned pairwise different sq_ids of rows,
\* the others have returned -1, and if one returned -1 no row is left AVAILABLE.
C2_ExactlyKSucceed ==
    (\A p \in Procs : pc[p] = "idle") =>
        LET k == Len(table)
            n == calls
            succeeded == IF n < k THEN n ELSE k
        IN  /\ Len(claim_log) = n
            /\ NoDuplicates(claim_log)
            /\ Cardinality(Claimed(claim_log)) = succeeded
            /\ NoneReturned(claim_log) = n - succeeded
            /\ Claimed(claim_log) \subseteq IdsOf(table)
            /\ NoneReturned(claim_log) > 0 =>
                  \A i \in 1..Len(table) : table[i][SQ_STATUS] # STATUS_AVAILABLE

\* C2 witness: more calls than rows have returned; two processes hold one row
\* each and a call has returned -1.
C2_Witness ==
    /\ \A p \in Procs : pc[p] = "idle"
    /\ Len(table) = 2 /\ calls > 2
    /\ Claimed(claim_log) = {1, 2}
    /\ NoneReturned(claim_log) = calls - 2
    /\ table[1][SQ_CLAIM_HOSTNAME] # table[2][SQ_CLAIM_HOSTNAME]

\* C3 as stated: when a claim without predicate returns row r, no AVAILABLE row of
\* the table in which r becomes CLAIMED outranks r.
C3_BestAtUpdate ==
    [][\A p \in Procs :
          (ClaimReturnsRow(p) /\ cond[p] = NO_CONDITION) =>
              \A i \in 1..Len(table) :
                  table[i][SQ_STATUS] = STATUS_AVAILABLE =>
                      ~Outranks(table[i], RowWithId(table, ret'.id))]_vars

\* C3 amended: the same, provided no row became AVAILABLE (inserted by put, or set
\* back by finish) after the claim's select had started.
C3_BestUnlessStale ==
    [][\A p \in Procs :
          (ClaimReturnsRow(p) /\ cond[p] = NO_CONDITION /\ ~stale[p]) =>
              \A i \in 1..Len(table) :
                  table[i][SQ_STATUS] = STATUS_AVAILABLE =>
                      ~Outranks(table[i], RowWithId(table, ret'.id))]_vars

\* C3 witness: a claim took the row of higher priority and left an AVAILABLE row
\* of lower priority that was inserted earlier.
C3_Witness ==
    /\ ret.op = "claim" /\ ~ret.raised /\ ret.id # NONE_AVAILABLE
    /\ \E i \in 1..Len(table) :
          /\ table[i][SQ_STATUS] = STATUS_AVAILABLE
          /\ table[i][SQ_ID] < ret.id
          /\ table[i][SQ_PRIORITY] < RowWithId(table, ret.id)[SQ_PRIORITY]

\* C4: against a static backlog the i-th claim returns the row that i-1 rows
\* outrank (higher priority, or the same priority and a smaller sq_id), and every
\* claim after the last row returns -1.
C4_BacklogOrder ==
    \A i \in 1..Len(claim_log) :
        IF i <= Len(table)
        THEN /\ HasRow(table, claim_log[i])
             /\ Cardinality({j \in 1..Len(table) :
                    Outranks(table[j], RowWithId(table, claim_log[i]))}) = i - 1
        ELSE claim_log[i] = NONE_AVAILABLE

\* C4 witness: the rows put with priorities 5, 9, 1 were returned as the 9, the 5
\* and the 1 row, and the next claim returned -1.
C4_Witness ==
    /\ Len(table) = 3
    /\ [i \in 1..3 |-> table[i][SQ_PRIORITY]] = <<5, 9, 1>>
    /\ claim_log = <<2, 1, 3, NONE_AVAILABLE>>

\* This step is a step of a claim of p that was called with a predicate.
PredicateClaimStep(p) ==
    /\ cond[p] # NO_CONDITION
    /\ ClaimContinues(p) \/ (ret'.op = "claim" /\ ret'.proc = p)

\* No AVAILABLE row of t that satisfies predicate c outranks row r.
BestOf(t, r, c) ==
    \A i \in 1..Len(t) :
        (t[i][SQ_STATUS] = STATUS_AVAILABLE /\ Satisfies(t[i], c)) => ~Outranks(t[i], r)

\* C5 as stated: a claim with a predicate returns an AVAILABLE row that satisfies
\* the predicate and that no other such row outranks, changes no row that does not
\* satisfy the predicate, and returns -1 when no AVAILABLE row satisfies the
\* predicate; no two claims return the same sq_id.
C5_PredicateClaim ==
    [][\A p \in Procs :
          /\ (ClaimReturnsRow(p) /\ cond[p] # NO_CONDITION) =>
                /\ RowWithId(table, ret'.id)[SQ_STATUS] = STATUS_AVAILABLE
                /\ Satisfies(RowWithId(table, ret'.id), cond[p])
                /\ BestOf(table, RowWithId(table, ret'.id), cond[p])
          /\ PredicateClaimStep(p) =>
                \A i \in 1..Len(table) :
                    ~Satisfies(table[i], cond[p]) => table'[i] = table[i]
          /\ \A c \in Conditions \ {NO_CONDITION} :
                (/\ claim_select(p, c)
                 /\ \A i \in 1..Len(table) :
                       ~(table[i][SQ_STATUS] = STATUS_AVAILABLE /\ table[i][KIND] \in c))
                    => (ret'.op = "claim" /\ ret'.proc = p /\ ~ret'.raised
                        /\ ret'.id = NONE_AVAILABLE /\ table' = table)
          /\ NoDuplicates(claim_log')]_vars

\* C5 amended: the same, where the returned row is the best one provided no row
\* became AVAILABLE after the claim's select had started, and no two claims return
\* the same sq_id provided no row's status was set back to AVAILABLE.
C5_PredicateClaimUnlessStale ==
    [][\A p \in Procs :
          /\ (ClaimReturnsRow(p) /\ cond[p] # NO_CONDITION) =>
                /\ RowWithId(table, ret'.id)[SQ_STATUS] = STATUS_AVAILABLE
                /\ Satisfies(RowWithId(table, ret'.id), cond[p])
                /\ ~stale[p] => BestOf(table, RowWithId(table, ret'.id), cond[p])
          /\ PredicateClaimStep(p) =>
                \A i \in 1..Len(table) :
                    ~Satisfies(table[i], cond[p]) => table'[i] = table[i]
          /\ \A c \in Conditions \ {NO_CONDITION} :
                (/\ claim_select(p, c)
                 /\ \A i \in 1..Len(table) :
                       ~(table[i][SQ_STATUS] = STATUS_AVAILABLE /\ table[i][KIND] \in c))
                    => (ret'.op = "claim" /\ ret'.proc = p /\ ~ret'.raised
                        /\ ret'.id = NONE_AVAILABLE /\ table' = table)
          /\ ~reavailed' => NoDuplicates(claim_log')]_vars

\* C5 witness: a claim has returned a row of kind "b" and passed over a row of
\* kind "a" that was inserted earlier with a higher priority and has been AVAILABLE
\* ever since.
C5_Witness ==
    /\ ~reavailed
    /\ ret.op = "claim" /\ ~ret.raised /\ ret.id # NONE_AVAILABLE
    /\ RowWithId(table, ret.id)[KIND] = "b"
    /\ RowWithId(table, ret.id)[SQ_STATUS] = STATUS_CLAIMED
    /\ \E i \in 1..Len(table) :
          /\ table[i][SQ_STATUS] = STATUS_AVAILABLE /\ table[i][KIND] = "a"
          /\ table[i][SQ_ID] < ret.id
          /\ table[i][SQ_PRIORITY] > RowWithId(table, ret.id)[SQ_PRIORITY]

\* C6: a claim that returns r changes row r and nothing else: r was AVAILABLE and
\* becomes CLAIMED, with sq_claim_time and sq_claim_hostname set and every other
\* column as before; every other step of a claim changes no row.
C6_ClaimFrame ==
    [][\A p \in Procs :
          /\ ClaimReturnsRow(p) =>
                /\ Len(table') = Len(table)
                /\ Cardinality({i \in 1..Len(table) : table[i][SQ_ID] = ret'.id}) = 1
                /\ \A i \in 1..Len(table) :
                      IF table[i][SQ_ID] = ret'.id
                      THEN /\ table[i][SQ_STATUS] = STATUS_AVAILABLE
                           /\ table'[i][SQ_STATUS] = STATUS_CLAIMED
                           /\ table'[i][SQ_CLAIM_TIME] # NULL_TIME
                           /\ table'[i][SQ_CLAIM_HOSTNAME] = gethostname(p)
                           /\ \A c \in TableColumns \ {SQ_STATUS, SQ_CLAIM_TIME,
                                                       SQ_CLAIM_HOSTNAME} :
                                 table'[i][c] = table[i][c]
                      ELSE table'[i] = table[i]
          /\ (ret'.op = "claim" /\ ret'.proc = p /\ ~ClaimReturnsRow(p)) => table' = table
          /\ ClaimContinues(p) => table' = table]_vars

\* C6 witness: a claim has returned a row while another row stays AVAILABLE.
C6_Witness ==
    /\ ret.op = "claim" /\ ~ret.raised /\ ret.id # NONE_AVAILABLE
    /\ Len(table) >= 2
    /\ RowWithId(table, ret.id)[SQ_STATUS] = STATUS_CLAIMED
    /\ \E i \in 1..Len(table) : table[i][SQ_STATUS] = STATUS_AVAILABLE

\* C7: when a claim's transaction fails, no row changes, the row the claim had
\* locked is AVAILABLE as before, the caller gets the error (the call returns
\* nothing, -1 included) and the call is over: it runs no second select or update.
C7_AbortLeavesRow ==
    [][\A p \in Procs :
          claim_abort(p) =>
              /\ table' = table
              /\ pc[p] = "claim_update" =>
                    RowWithId(table', sel[p])[SQ_STATUS] = STATUS_AVAILABLE
              /\ ret'.op = "claim" /\ ret'.proc = p /\ ret'.raised
              /\ claim_log' = claim_log
              /\ pc'[p] = "idle" /\ cands'[p] = <<>> /\ sel'[p] = 0]_vars

\* C7 witness: a claim has raised and the row it could have claimed is AVAILABLE.
C7_Witness ==
    /\ ret.op = "claim" /\ ret.raised
    /\ \E i \in 1..Len(table) : table[i][SQ_STATUS] = STATUS_AVAILABLE
    /\ claim_log = <<>>

\* The frame row put inserted as id has no payload column the table lacks.
PayloadInTable(id) == DOMAIN put_log[id] \ MetaColumns \subseteq PayloadColumns

\* get has returned, and its update is the last statement that wrote the row.
GetReturned ==
    /\ ret.op = "get" /\ ~ret.raised
    /\ HasRow(table, ret.id)
    /\ last_op[ret.id].op = "get" /\ last_op[ret.id].proc = ret.proc

\* C8: get of a row that put inserted, with no other write of the row since get's
\* update, returns one row: its payload columns are those of the frame put was
\* given, its sq_status is IN_PROGRESS, and sq_get_time and sq_get_hostname are set.
C8_RoundTrip ==
    (GetReturned /\ PayloadInTable(ret.id)) =>
        /\ Len(ret.rows) = 1
        /\ ret.rows[1][SQ_ID] = ret.id
        /\ \A c \in DOMAIN put_log[ret.id] \ MetaColumns :
              ret.rows[1][c] = put_log[ret.id][c]
        /\ ret.rows[1][SQ_STATUS] = STATUS_PROGRESS
        /\ ret.rows[1][SQ_GET_TIME] # NULL_TIME
        /\ ret.rows[1][SQ_GET_HOSTNAME] = gethostname(ret.proc)

\* C8 witness: a row of kind "b" was put, claimed by one process and fetched by it.
C8_Witness ==
    /\ GetReturned /\ PayloadInTable(ret.id)
    /\ ret.id \in Claimed(claim_log)
    /\ put_log[ret.id][KIND] = "b"
    /\ Len(ret.rows) = 1
    /\ ret.rows[1][SQ_CLAIM_HOSTNAME] = gethostname(ret.proc)

\* C9: get_status changes no row and raises nothing; for a row whose last write
\* was a finish with status COMPLETED it returns COMPLETED, and for an sq_id that
\* is not in the table it returns DOESNOTEXIST.
C9_StatusAfterFinish ==
    [][ret'.op = "get_status" =>
          /\ table' = table
          /\ ~ret'.raised
          /\ IF HasRow(table, ret'.id)
             THEN (/\ last_op[ret'.id].op = "finish"
                   /\ last_op[ret'.id].status = STATUS_COMPLETED)
                      => ret'.status = STATUS_COMPLETED
             ELSE ret'.status = STATUS_NOEXIST]_vars

\* C9 witness: get_status has returned COMPLETED for a row that was finished.
C9_Witness ==
    /\ ret.op = "get_status" /\ ret.status = STATUS_COMPLETED
    /\ HasRow(table, ret.id)
    /\ last_op[ret.id].op = "finish"

\* The transitions of sq_status the state machine allows, with the method of each.
AllowedTransition(old, new, op) ==
    \/ old = STATUS_AVAILABLE /\ new = STATUS_CLAIMED /\ op = "claim"
    \/ old = STATUS_CLAIMED /\ new = STATUS_PROGRESS /\ op = "get"
    \/ /\ old = STATUS_PROGRESS /\ op = "finish"
       /\ new \in {STATUS_COMPLETED, STATUS_EXCEPTION, STATUS_RECOVERABLE}
    \/ /\ old \in {STATUS_CLAIMED, STATUS_PROGRESS} /\ new = STATUS_DESTROYED
       /\ op \in {"cleanup_long_running_rows", "set_destroyed"}

\* C10: every change of a row's sq_status is one of the allowed transitions.
C10_AllowedTransitions ==
    [][\A i \in 1..Len(table) :
          table'[i][SQ_STATUS] # table[i][SQ_STATUS] =>
              AllowedTransition(table[i][SQ_STATUS], table'[i][SQ_STATUS],
                                last_op'[table[i][SQ_ID]].op)]_vars

\* The lease of row r has expired at time t: CLAIMED for longer than cl, or
\* IN_PROGRESS for longer than ip since it was fetched.
LeaseExpired(r, t, ip, cl) ==
    IF r[SQ_STATUS] = STATUS_CLAIMED
    THEN r[SQ_CLAIM_TIME] # NULL_TIME /\ r[SQ_CLAIM_TIME] + cl < t
    ELSE IF r[SQ_STATUS] = STATUS_PROGRESS
         THEN r[SQ_GET_TIME] # NULL_TIME /\ r[SQ_GET_TIME] + ip < t
         ELSE FALSE

\* The rows of t, in table order, whose lease has expired.
ExpiredRows(t, time, ip, cl) ==
    LET keep(r) == LeaseExpired(r, time, ip, cl) IN SelectSeq(t, keep)

\* C11: with nothing running beside it, the scanner selects exactly the rows whose
\* lease has expired (strictly older than the timeout of their status, IN_PROGRESS
\* counted from sq_get_time), sets exactly these rows to DESTROYED and returns
\* them; every other row is unchanged and absent from the result.
C11_ScannerDestroysExpired ==
    [][\A p \in Callers :
          /\ \A ip \in ScanTimeouts, cl \in ScanTimeouts :
                cleanup_select(p, ip, cl) =>
                    /\ table' = table
                    /\ IF ExpiredRows(table, now, ip, cl) = <<>>
                       THEN /\ ret'.op = "cleanup_long_running_rows"
                            /\ ret'.rows = <<>> /\ ~ret'.raised
                       ELSE /\ picked'[p] = ExpiredRows(table, now, ip, cl)
                            /\ pc'[p] = "cleanup_update"
          /\ cleanup_update(p) =>
                /\ ret'.op = "cleanup_long_running_rows" /\ ~ret'.raised
                /\ ret'.rows = picked[p]
                /\ \A i \in 1..Len(picked[p]) : picked[p][i] \in Range(table)
                /\ Len(table') = Len(table)
                /\ \A i \in 1..Len(table) :
                      IF table[i] \in Range(picked[p])
                      THEN table'[i] = [table[i] EXCEPT ![SQ_STATUS] = STATUS_DESTROYED]
                      ELSE table'[i] = table[i]]_vars

\* C11 witness: the scanner has returned a row that was claimed and never fetched,
\* now DESTROYED, and has left alone a row fetched less than the timeout ago.
C11_Witness ==
    /\ ret.op = "cleanup_long_running_rows"
    /\ Len(ret.rows) = 1
    /\ ret.rows[1][SQ_STATUS] = STATUS_CLAIMED
    /\ RowWithId(table, ret.rows[1][SQ_ID])[SQ_STATUS] = STATUS_DESTROYED
    /\ \E i \in 1..Len(table) :
          /\ table[i][SQ_STATUS] = STATUS_PROGRESS
          /\ table[i][SQ_CLAIM_TIME] < table[i][SQ_GET_TIME]

\* Process p holds the table lock of set_destroyed.
HoldsTableLock(p) == pc[p] \in {"sd_select", "sd_update"}

\* C12: set_destroyed sets to DESTROYED every row whose sq_status is in status_list
\* and no other row, and returns the sq_ids of exactly these rows, each once; from
\* the call to the update no row changes, whatever the other processes do.
C12_DestroysListedRows ==
    [][\A p \in Procs :
          /\ (HoldsTableLock(p) /\ pc'[p] # "idle") => table' = table
          /\ (pc[p] = "sd_update" /\ pc'[p] = "idle") =>
                /\ ret'.op = "set_destroyed" /\ ret'.proc = p /\ ~ret'.raised
                /\ Range(ret'.ids) =
                      {table[i][SQ_ID] : i \in {j \in 1..Len(table) :
                                                   table[j][SQ_STATUS] \in statuses[p]}}
                /\ Len(ret'.ids) = Cardinality(Range(ret'.ids))
                /\ Len(table') = Len(table)
                /\ \A i \in 1..Len(table) :
                      IF table[i][SQ_ID] \in Range(ret'.ids)
                      THEN table'[i] = [table[i] EXCEPT ![SQ_STATUS] = STATUS_DESTROYED]
                      ELSE table'[i] = table[i]]_vars

\* C12 witness: set_destroyed has returned one row, now DESTROYED, while an
\* AVAILABLE row has kept its status.
C12_Witness ==
    /\ ret.op = "set_destroyed" /\ Len(ret.ids) = 1
    /\ RowWithId(table, ret.ids[1])[SQ_STATUS] = STATUS_DESTROYED
    /\ RowWithId(table, ret.ids[1])[SQ_CLAIM_TIME] # NULL_TIME
    /\ \E i \in 1..Len(table) : table[i][SQ_STATUS] = STATUS_AVAILABLE

\* C13: while a process holds the table lock of set_destroyed, no other process
\* takes a step: no call of another process begins, goes on or returns, and the
\* table changes only by the update of the lock's holder.
C13_TableLockExcludes ==
    [][\A p \in Procs :
          HoldsTableLock(p) =>
              /\ \A q \in Procs \ {p} : pc'[q] = pc[q]
              /\ calls' = calls
              /\ ret'.proc \in {0, p}
              /\ table' # table => (pc[p] = "sd_update" /\ pc'[p] = "idle")]_vars

\* C13 witness: the table lock is held, between the select and the update, while
\* another process is between the two statements of a get and a row is AVAILABLE.
C13_Witness ==
    \E p \in Procs, q \in Procs :
        /\ pc[p] = "sd_update" /\ pc[q] = "get_select"
        /\ \E i \in 1..Len(table) : table[i][SQ_STATUS] = STATUS_AVAILABLE

\* This step is a put that has inserted its frame.
PutInserts == ret'.op = "put" /\ ~ret'.raised

\* C14: a put appends its rows and changes no row that was there; every row it
\* inserts is AVAILABLE, has the caller's host as sq_put_hostname and a sq_put_time
\* that is not NULL, and can be claimed at once.
C14_PutStampsRows ==
    [][PutInserts =>
          /\ Len(table') > Len(table)
          /\ SubSeq(table', 1, Len(table)) = table
          /\ \A i \in (Len(table) + 1)..Len(table') :
                /\ table'[i][SQ_STATUS] = STATUS_AVAILABLE
                /\ table'[i][SQ_PUT_HOSTNAME] = gethostname(ret'.proc)
                /\ table'[i][SQ_PUT_TIME] # NULL_TIME
                /\ table'[i][SQ_ID] \in Range(ClaimCandidates(table', NO_CONDITION))]_vars

\* C15: the sq_priority of every row is between MIN_PRIORITY and MAX_PRIORITY.
C15_PriorityInRange ==
    \A i \in 1..Len(table) :
        table[i][SQ_PRIORITY] >= MIN_PRIORITY /\ table[i][SQ_PRIORITY] <= MAX_PRIORITY

\* C16: the sq_ids of the rows are pairwise different, no step changes the sq_id of
\* a row, and every row a put inserts has an sq_id greater than the sq_id of every
\* row that was in the table before.
C16_IdsUniqueIncreasing ==
    [][/\ PrimaryKeyHolds(table')
       /\ Len(table') >= Len(table)
       /\ \A i \in 1..Len(table) : table'[i][SQ_ID] = table[i][SQ_ID]
       /\ \A i \in (Len(table) + 1)..Len(table') :
             \A j \in 1..Len(table) : table'[i][SQ_ID] > table[j][SQ_ID]]_vars

\* C17: no step of any method removes a row: the rows of the table stay where
\* they are, with their sq_ids, and rows are only added after them.
C17_RowsNeverRemoved ==
    [][/\ Len(table') >= Len(table)
       /\ \A i \in 1..Len(table) : table'[i][SQ_ID] = table[i][SQ_ID]
       /\ IdsOf(table) \subseteq IdsOf(table')]_vars

\* C17 witness: a row that was put first is still there, DESTROYED, after a later
\* put added a row and a read-only method has returned.
C17_Witness ==
    /\ Len(table) = 2
    /\ table[1][SQ_STATUS] = STATUS_DESTROYED /\ table[1][SQ_ID] = 1
    /\ ret.op \in {"available_count", "get_work_in_progress"}

\* The columns a transition stamps, and the NULL of each.
StampColumns == {SQ_CLAIM_TIME, SQ_CLAIM_HOSTNAME, SQ_GET_TIME, SQ_GET_HOSTNAME,
                 SQ_FINISH_TIME}
IsNull(c, v) == IF c \in {SQ_CLAIM_HOSTNAME, SQ_GET_HOSTNAME} THEN v = NULL_HOST
                ELSE v = NULL_TIME

\* C18: a stamp of a row (claim, get or finish time, claim or get host) that is
\* not NULL is never changed by a later step.
C18_StampsWrittenOnce ==
    [][\A i \in 1..Len(table) : \A c \in StampColumns :
          ~IsNull(c, table[i][c]) => table'[i][c] = table[i][c]]_vars

\* Times t1 and t2 are in order, when both are set.
InOrder(t1, t2) == (t1 # NULL_TIME /\ t2 # NULL_TIME) => t1 <= t2

\* C19: in every row the times that are set are ordered: put, claim, get, finish.
C19_TimesOrdered ==
    \A i \in 1..Len(table) :
        LET r == table[i]
        IN  /\ InOrder(r[SQ_PUT_TIME], r[SQ_CLAIM_TIME])
            /\ InOrder(r[SQ_PUT_TIME], r[SQ_GET_TIME])
            /\ InOrder(r[SQ_PUT_TIME], r[SQ_FINISH_TIME])
            /\ InOrder(r[SQ_CLAIM_TIME], r[SQ_GET_TIME])
            /\ InOrder(r[SQ_CLAIM_TIME], r[SQ_FINISH_TIME])
            /\ InOrder(r[SQ_GET_TIME], r[SQ_FINISH_TIME])

\* C20: no row has the sq_status DOESNOTEXIST, and get_status returns it only for
\* an sq_id that is not in the table.
C20_NoexistNeverStored ==
    /\ \A i \in 1..Len(table) : table[i][SQ_STATUS] # STATUS_NOEXIST
    /\ (ret.op = "get_status" /\ ret.status = STATUS_NOEXIST) => ~HasRow(table, ret.id)

\* This step is a call of the constructor by p.
Constructs(p) == calls' = calls + 1 /\ ret'.op = "SQLQueue" /\ ret'.proc = p

\* C21: constructing a queue object raises a RuntimeError and gives the caller no
\* object when the store cannot be reached, when there is no table, or when
\* the table lacks sq_priority, sq_status or sq_id; otherwise it succeeds; in
\* both cases no row and no column is changed.
C21_ConstructorFailsFast ==
    [][\A p \in Procs :
          Constructs(p) =>
              LET queryable == up /\ ProbedColumns \subseteq DOMAIN columns
              IN  /\ ret'.raised <=> ~queryable
                  /\ ret'.raised => ret'.status = "RuntimeError"
                  /\ p \in handles' <=> queryable
                  /\ handles' \ {p} = handles
                  /\ UNCHANGED <<table, columns, sq_id_seq>>]_vars

\* C21 witness: the constructor has raised on a reachable store whose table of
\* that name lacks the queue's columns.
C21_Witness ==
    /\ ret.op = "SQLQueue" /\ ret.raised
    /\ up
    /\ DOMAIN columns # {}
    /\ ~(ProbedColumns \subseteq DOMAIN columns)
    /\ handles = {}

\* C22: every create_table call whose column descriptions name one of the
\* queue's own columns ends with an error and leaves the store without a new
\* table.
C22_ReservedNamesRejected ==
    [][\A p \in Procs, cd \in ColumnDescriptions, ty \in SqlTypes :
          (create_table(p, cd, ty) /\ DOMAIN cd \cap MetaColumns # {}) =>
              (ret'.raised /\ columns' = columns)]_vars

\* C23: a table that create_table has created has every column of the queue's
\* own, and claim's update of a row it has locked does not raise while the
\* store can be reached.
C23_CreatedTableComplete ==
    [][/\ \A p \in Procs, cd \in ColumnDescriptions, ty \in SqlTypes :
             (create_table(p, cd, ty) /\ DOMAIN columns = {} /\ DOMAIN columns' # {}) =>
                 MetaColumns \subseteq DOMAIN columns'
       /\ \A p \in Procs :
             (pc[p] = "claim_update" /\ pc'[p] = "idle" /\ up) => ~ret'.raised]_vars

\* C24: a create_table call on a PostgreSQL connection, made when the table
\* exists and the store can be reached, raises nothing and leaves the columns
\* and the rows as they are, whatever its column descriptions; on a connection
\* of another type the call raises a TypeError and leaves the store as it is.
C24_CreateIdempotent ==
    [][\A p \in Procs, cd \in ColumnDescriptions, ty \in SqlTypes :
          create_table(p, cd, ty) =>
              IF ty # POSTGRES
              THEN /\ ret'.raised /\ ret'.status = "TypeError"
                   /\ UNCHANGED <<table, columns>>
              ELSE (up /\ DOMAIN columns # {}) =>
                       (~ret'.raised /\ UNCHANGED <<table, columns>>)]_vars

\* C24 witness: create_table has returned normally on a queue that holds a row.
C24_Witness ==
    /\ ret.op = "create_table" /\ ~ret.raised
    /\ Len(table) > 0
    /\ ProbedColumns \subseteq DOMAIN columns

\* C25: while the store cannot be reached, every step of a queue method ends
\* the call with an error: no method returns a value, none goes on to a next
\* statement, and no row changes.
C25_OutageRaises ==
    [][(~up /\ ~up') =>
          /\ ret'.op \in Methods => ret'.raised
          /\ \A p \in Procs : pc'[p] # pc[p] => pc'[p] = "idle"
          /\ table' = table]_vars

\* C25 witness: get_status was called during an outage and has raised.
C25_Witness == ~up /\ ret.op = "get_status" /\ ret.raised /\ Len(table) > 0

\* The rows of t that are AVAILABLE and satisfy predicate c.
AvailableRows(t, c) ==
    {i \in 1..Len(t) : t[i][SQ_STATUS] = STATUS_AVAILABLE /\ Satisfies(t[i], c)}

\* This step is a call of available_count by p with predicate c.
Counts(p, c) ==
    /\ calls' = calls + 1
    /\ ret'.op = "available_count" /\ ret'.proc = p
    /\ counted'.cond = c

\* C26: available_count returns the number of rows that are AVAILABLE and satisfy
\* its predicate and changes no row; and when the same process, with nothing
\* else running, goes on to call claim with that predicate, never more claims
\* return a row than were counted, and when one returns -1 exactly as many
\* have returned a row as were counted.
C26_CountMatchesClaims ==
    [][/\ \A p \in Callers, c \in Conditions :
             Counts(p, c) =>
                 /\ ret'.id = Cardinality(AvailableRows(table, c))
                 /\ ~ret'.raised
                 /\ table' = table
       /\ counted'.on =>
             /\ counted'.got <= counted'.n
             /\ counted'.ended => counted'.got = counted'.n]_vars

\* C26 witness: one row was counted under a predicate, the next claim with the
\* predicate has returned it and the one after has returned -1, while a row
\* the predicate rejects is still AVAILABLE.
C26_Witness ==
    /\ counted.on /\ counted.ended
    /\ counted.cond # NO_CONDITION
    /\ counted.n = 1 /\ counted.got = 1
    /\ AvailableRows(table, NO_CONDITION) # {}
    /\ ret.op = "claim" /\ ret.id = NONE_AVAILABLE

\* C27: when set_destroyed returns, the table holds, for every row it has
\* destroyed, a new row with the same payload, status AVAILABLE and an sq_id
\* no row had before.
C27_DestroyedRowsRequeued ==
    [][\A p \in Procs :
          (pc[p] = "sd_update" /\ pc'[p] = "idle" /\ ~ret'.raised) =>
              \A k \in 1..Len(ret'.ids) :
                  \E i \in 1..Len(table') :
                      /\ table'[i][SQ_ID] \notin IdsOf(table)
                      /\ table'[i][SQ_STATUS] = STATUS_AVAILABLE
                      /\ table'[i][KIND] = RowWithId(table, ret'.ids[k])[KIND]]_vars

\* This step is a loading call that returns.
Loads == calls' = calls + 1 /\ ret'.op \in {"append_to_table", "bulk_load"} /\ ~ret'.raised

ScannerUpdates(p) == pc[p] = "cleanup_update" /\ pc'[p] = "idle" /\ ~ret'.raised

\* C29: a row that the scanner selected and that is COMPLETED when the
\* scanner's update runs is set to DESTROYED by it.
C29_FinishedRowDestroyed ==
    [][\A p \in Procs :
          ScannerUpdates(p) =>
              \A i \in 1..Len(table) :
                  (table[i][SQ_ID] \in IdsOf(picked[p])
                      /\ table[i][SQ_STATUS] = STATUS_COMPLETED)
                  => table'[i][SQ_STATUS] = STATUS_DESTROYED]_vars

\* C29 witness: the scanner has returned a row that was unfinished when it
\* selected it; the row was finished before the update (it has a finish time)
\* and is DESTROYED.
C29_Witness ==
    /\ ret.op = "cleanup_long_running_rows"
    /\ \E k \in 1..Len(ret.rows), i \in 1..Len(table) :
          /\ table[i][SQ_ID] = ret.rows[k][SQ_ID]
          /\ ret.rows[k][SQ_FINISH_TIME] = NULL_TIME
          /\ table[i][SQ_FINISH_TIME] # NULL_TIME
          /\ table[i][SQ_STATUS] = STATUS_DESTROYED

\* C30: whatever other processes do meanwhile, the scanner's select changes no
\* row and, when it finds none, returns at once; its update sets sq_status to
\* DESTROYED in exactly the rows the select returned, whatever their status
\* has become, changes no other column and no other row, and the call returns
\* the rows as selected.
C30_ScannerUpdatesSelected ==
    [][\A p \in Procs :
          /\ (pc[p] = "idle" /\ pc'[p] = "cleanup_update") =>
                 (table' = table /\ picked'[p] # <<>>)
          /\ (pc[p] = "idle" /\ pc'[p] = "idle" /\ calls' = calls + 1
                 /\ ret'.op = "cleanup_long_running_rows" /\ ret'.proc = p) =>
                 (table' = table /\ ret'.rows = <<>> /\ ~ret'.raised)
          /\ ScannerUpdates(p) =>
                 /\ ret'.rows = picked[p]
                 /\ Len(table') = Len(table)
                 /\ \A i \in 1..Len(table) :
                       table'[i] = IF table[i][SQ_ID] \in IdsOf(picked[p])
                                   THEN [table[i] EXCEPT ![SQ_STATUS] = STATUS_DESTROYED]
                                   ELSE table[i]]_vars

\* C30 witness: the scanner has returned a row it selected as CLAIMED; another
\* process fetched the row before the update, and the row is DESTROYED.
C30_Witness ==
    /\ ret.op = "cleanup_long_running_rows"
    /\ \E k \in 1..Len(ret.rows), i \in 1..Len(table) :
          /\ table[i][SQ_ID] = ret.rows[k][SQ_ID]
          /\ ret.rows[k][SQ_STATUS] = STATUS_CLAIMED
          /\ ret.rows[k][SQ_GET_TIME] = NULL_TIME
          /\ table[i][SQ_GET_TIME] # NULL_TIME
          /\ table[i][SQ_GET_HOSTNAME] # gethostname(ret.proc)
          /\ table[i][SQ_STATUS] = STATUS_DESTROYED

\* C31: finish(row_id, s) raises nothing; in the row with this sq_id, whatever
\* its status, it sets sq_status to s and sq_finish_time to the current time and
\* nothing else; it changes no other row, and nothing when no row has the sq_id.
C31_FinishOverwrites ==
    [][\A p \in Procs, row_id \in RowIds, s \in Outcomes :
          finish(p, row_id, s) =>
              /\ ~ret'.raised
              /\ Len(table') = Len(table)
              /\ \A i \in 1..Len(table) :
                    table'[i] = IF table[i][SQ_ID] = row_id
                                THEN [table[i] EXCEPT ![SQ_STATUS] = s,
                                                      ![SQ_FINISH_TIME] = now]
                                ELSE table[i]
              /\ ~HasRow(table, row_id) => table' = table]_vars

\* C31 witness: a finish has just written a row that was never claimed nor
\* fetched (it was AVAILABLE or DESTROYED): the row carries the finish's status
\* and time, and neither a claim time nor a get time.
C31_Witness ==
    /\ ret.op = "finish" /\ ~ret.raised
    /\ \E i \in 1..Len(table) :
          /\ last_op[table[i][SQ_ID]].op = "finish"
          /\ table[i][SQ_STATUS] = STATUS_EXCEPTION
          /\ table[i][SQ_FINISH_TIME] = now
          /\ table[i][SQ_GET_TIME] = NULL_TIME
          /\ table[i][SQ_CLAIM_TIME] = NULL_TIME

\* The in-progress age of row r does not exceed any timeout a scanner passes.
LeaseFresh(r) ==
    /\ r[SQ_STATUS] = STATUS_PROGRESS
    /\ \A in_progress_timeout_h \in Timeouts : now - r[SQ_GET_TIME] <= in_progress_timeout_h

\* C32: a get of a row that is IN_PROGRESS leaves it IN_PROGRESS and replaces
\* its sq_get_time and sq_get_hostname by the time and the host of this call,
\* and the scanner's select never returns an IN_PROGRESS row whose sq_get_time
\* is within the timeout, however long ago the row was claimed or first fetched.
C32_RepeatedGetRenewsLease ==
    [][\A p \in Procs :
          /\ (pc[p] = "idle" /\ pc'[p] = "get_select") =>
                \A i \in 1..Len(table) :
                    (table[i][SQ_ID] = sel'[p] /\ table[i][SQ_STATUS] = STATUS_PROGRESS)
                    => /\ table'[i] = [table[i] EXCEPT
                                          ![SQ_GET_TIME] = now,
                                          ![SQ_GET_HOSTNAME] = gethostname(p)]
                       /\ LeaseFresh(table'[i])
          /\ (pc[p] = "idle" /\ pc'[p] = "cleanup_update") =>
                \A i \in 1..Len(table) :
                    LeaseFresh(table[i]) => table[i][SQ_ID] \notin IdsOf(picked'[p])]_vars

\* C32 witness: process 1 fetched a row and has not read it back yet; later
\* process 2 fetched the same row again, and now its scanner has run and found
\* nothing to destroy: the row, claimed before the clock advanced, is
\* IN_PROGRESS with the second get's host and time.
C32_Witness ==
    /\ ret.op = "cleanup_long_running_rows" /\ ret.proc = 2 /\ ret.rows = <<>>
    /\ pc[1] = "get_select"
    /\ \E i \in 1..Len(table) :
          /\ table[i][SQ_ID] = sel[1]
          /\ table[i][SQ_STATUS] = STATUS_PROGRESS
          /\ table[i][SQ_GET_HOSTNAME] = gethostname(2)
          /\ table[i][SQ_GET_TIME] = now
          /\ table[i][SQ_CLAIM_TIME] < now

\* C33: a process that holds set_destroyed's table lock ends the call, by its
\* commit or by an error of its select or update, and then no process is kept
\* from the table by the lock: a put or claim that waited for it can go on.
C33_TableLockReleased ==
    \A p \in Procs :
        (pc[p] \in {"sd_select", "sd_update"})
            ~> (pc[p] = "idle" /\ \A q \in Procs : ~TableLockedByOther(q))

\* C33 witness: set_destroyed has raised inside its locked section while the
\* store was down; its rows are as they were, the lock is gone, and the other
\* process, which holds rows to put or claim, is free to call.
C33_Witness ==
    /\ ret.op = "set_destroyed" /\ ret.raised /\ ~up
    /\ pc[ret.proc] = "idle"
    /\ \A q \in Procs : pc[q] = "idle" /\ ~TableLockedByOther(q)
    /\ \E i \in 1..Len(table) : table[i][SQ_STATUS] = STATUS_AVAILABLE

\* The number of runs in a that took effect.
Effects(a) == Cardinality({k \in 1..Len(a) : a[k] # "lost"})

\* The states in which a call waits for the second run of its statement.
RetryStates == {"finish_retry", "get_retry", "get_select_retry"}

\* This step is a run of a statement of p's get or finish.
RunStep(p) ==
    \/ pc[p] \in RetryStates \cup {"get_select"} /\ pc'[p] # pc[p]
    \/ /\ pc[p] = "idle" /\ calls' = calls + 1
       /\ \/ pc'[p] \in {"finish_retry", "get_retry", "get_select"}
          \/ ret'.op = "finish" /\ ret'.proc = p

\* The statement this run belongs to is an UPDATE.
UpdateRun(p) == pc[p] \in {"idle", "finish_retry", "get_retry"}

\* Some row carries the stamp of an UPDATE of get or finish made at time t.
Stamped(t, t_now) ==
    \E i \in 1..Len(t) : t[i][SQ_FINISH_TIME] = t_now \/ t[i][SQ_GET_TIME] = t_now

\* C34 as stated: when a call of get or finish has ended, its UPDATE has
\* taken effect twice if the first run raised after taking effect, and at most
\* once otherwise.
C34_TwiceAfterLateError ==
    \A p \in Procs :
        pc[p] = "idle" =>
            LET a == attempts[p]
            IN  IF a # <<>> /\ a[1] = "late" THEN Effects(a) = 2 ELSE Effects(a) <= 1

\* C34, amended: a statement of get or finish is run once when the first run
\* returns, and once more, never a third time, when the first run raised; what
\* the second run raises reaches the caller; a run that raised before taking
\* effect leaves the table as it was, any other run of an UPDATE applies it.
\* So the UPDATE takes effect at most once, except when the first run raised
\* after taking effect: then twice if the second run takes effect too, and
\* once, with the error raised to the caller, if it does not.
C34_RunsOnceOrTwice ==
    /\ [](\A p \in Procs :
            LET a == attempts[p]
            IN  /\ Len(a) <= 2
                /\ Len(a) = 2 => a[1] # "ok"
                /\ pc[p] \in RetryStates <=> (Len(a) = 1 /\ a[1] # "ok")
                /\ Effects(a) = 2 <=> (Len(a) = 2 /\ a[1] = "late" /\ a[2] # "lost"))
    /\ [][\A p \in Procs :
            RunStep(p) =>
                LET a == attempts'[p]
                    o == a[Len(a)]
                IN  /\ Len(a) = IF pc[p] \in RetryStates THEN 2 ELSE 1
                    /\ o = "lost" => table' = table
                    /\ ((\A id \in RetryRowIds : HasRow(table, id))
                           /\ UpdateRun(p) /\ o # "lost") => Stamped(table', now)
                    /\ ret'.raised <=> (Len(a) = 2 /\ o # "ok")
                    /\ ret'.raised => (ret'.proc = p /\ pc'[p] = "idle")]_vars

\* C34 witness: a finish has returned normally after two runs, the first of
\* which raised after taking effect: the UPDATE was applied twice, the second
\* time after the clock had advanced.
C34_Witness ==
    /\ ret.op = "finish" /\ ~ret.raised
    /\ attempts[ret.proc] = <<"late", "ok">>
    /\ now > 0
    /\ \E i \in 1..Len(table) :
          /\ table[i][SQ_STATUS] = STATUS_COMPLETED
          /\ table[i][SQ_FINISH_TIME] = now
          /\ last_op[table[i][SQ_ID]].op = "finish"

\* C35: a row whose sq_status is DESTROYED keeps that status in every later
\* step of claim, get, finish, the scanner and set_destroyed.
C35_DestroyedAbsorbing ==
    [][\A i \in 1..Len(table) :
          table[i][SQ_STATUS] = STATUS_DESTROYED
              => table'[i][SQ_STATUS] = STATUS_DESTROYED]_vars

\* C36: with every worker in the loop claim, get, finish on the sq_id its own
\* claim returned, no row has been returned by get to two workers, and no row
\* has been finished by two workers, whatever puts, scans and destroys run
\* in between.
C36_OneWorkerPerRow ==
    \A p, q \in Procs :
        p # q => /\ worker[p].got \cap worker[q].got = {}
                 /\ worker[p].finished \cap worker[q].finished = {}
                 /\ worker[p].got \cap worker[q].finished = {}

\* C36 witness: two workers hold different rows at the same time, and one of
\* them has been given its row by get.
C36_Witness ==
    \E p, q \in Procs :
        /\ worker[p].row_id # 0 /\ worker[q].row_id # 0
        /\ worker[p].row_id # worker[q].row_id
        /\ worker[p].got = {worker[p].row_id}
        /\ worker[p].at = "finish" /\ worker[q].at = "get"

\* Every row of the backlog is CLAIMED.
Drained == \A i \in 1..Len(table) : table[i][SQ_STATUS] = STATUS_CLAIMED

\* C37: on a backlog that only claims work on, every claim that has started
\* returns (claims do not wait for each other forever), every row is CLAIMED
\* in the end and stays so, and a claim that returns once every row is CLAIMED
\* returns "none available".
C37_BacklogDrains ==
    /\ \A p \in Procs : (pc[p] # "idle") ~> (pc[p] = "idle")
    /\ <>[]Drained
    /\ [][(Drained /\ ret'.op = "claim") =>
             (~ret'.raised /\ ret'.id = NONE_AVAILABLE)]_vars

\* C37 witness: a backlog of MaxBacklog rows is drained, both processes have
\* claimed rows of it, and a claim made afterwards has returned "none available".
C37_Witness ==
    /\ Len(table) = MaxBacklog /\ Drained
    /\ \E i, j \in 1..Len(table) : table[i][SQ_CLAIM_HOSTNAME] # table[j][SQ_CLAIM_HOSTNAME]
    /\ ret.op = "claim" /\ ret.id = NONE_AVAILABLE
    /\ Len(claim_log) = MaxBacklog + 1

\* C38: the frame that get returns for an existing row shows sq_status IN_PROGRESS
\* and the caller's host in sq_get_hostname, whatever the other processes do
\* between get's update and its select.
C38_GetReturnsOwnStamp ==
    (ret.op = "get" /\ ~ret.raised) =>
        \A i \in 1..Len(ret.rows) :
            /\ ret.rows[i][SQ_STATUS] = STATUS_PROGRESS
            /\ ret.rows[i][SQ_GET_HOSTNAME] = gethostname(ret.proc)

\* C39: one call of put inserts its batch at most once: a run of the call's
\* load, the to_sql after a bulk load that raised or the second to_sql, inserts
\* rows only if no earlier run of the call has inserted them.
C39_BatchInsertedOnce ==
    [][\A p \in Procs :
          (pc[p] \in AppendStates /\ pc'[p] # pc[p] /\ Len(table') > Len(table))
              => Effects(attempts[p]) = 0]_vars
====
